---- MODULE Spec2Model ----
(***************************************************************************)
(* Model of the wikijs-cli client layer (src/lib/api.js) and of the        *)
(* configuration loader it uses (config.js, kept in src/lib/utils.js).     *)
(*                                                                         *)
(* JavaScript values are tagged records.  A JavaScript string is a         *)
(* sequence of tokens (each token a TLA+ string, usually one character),   *)
(* so that concatenation is \o and the character-wise functions of the     *)
(* code (parseInt, replace, startsWith, join) are computed, not assumed.   *)
(***************************************************************************)
EXTENDS Integers, Sequences, FiniteSets, TLC

VARIABLES
    configFile,    \* what ~/.config/wikijs.json holds (never written by the program)
    cachedConfig,  \* utils.js: let cachedConfig = null
    client,        \* api.js: let client = null
    pc,            \* per caller: "idle", "await" (a request is in flight), "done"
    call,          \* per caller: the operation being run and its arguments
    req,           \* per caller: the request in flight, or NoReq
    work,          \* per caller: locals that live across an await (validId, currentPage)
    result,        \* per caller: what the operation returned or raised
    response,      \* per caller: the last outcome the network delivered to it
    sent,          \* per caller: requests the current operation has sent
    created,       \* number of axios.create calls so far (saturating)
    loaded,        \* loadConfig has returned a freshly read configuration
    reread,        \* readFileSync ran after loadConfig had already succeeded
    verboseMode,   \* helpers.js: let verboseMode = false
    debugMode,     \* helpers.js: let debugMode = false
    noColorMode,   \* helpers.js: let noColorMode = false
    chalkLevel,    \* chalk.level: 0 when chalk emits no colour codes
    lib,           \* the call of a synchronous function being evaluated:
                   \* its name, its arguments and, once it has run, its value
    now,           \* what Date.now() returns
    rateLimitMs,   \* helpers.js: let rateLimitMs = 0
    lastRequestTime, \* helpers.js: let lastRequestTime = 0
    limiter,       \* per caller: where its rateLimit() call stands
    completions,   \* the rateLimit() calls that have returned, in order
    cacheDir,      \* the files of ~/.cache/wikijs-cli, by key
    remote         \* the page the wiki server holds

helperVars == <<verboseMode, debugMode, noColorMode, chalkLevel, lib>>

timeVars == <<now, rateLimitMs, lastRequestTime, limiter, completions, cacheDir>>

vars == <<configFile, cachedConfig, client, pc, call, req, work, result,
          response, sent, created, loaded, reread, helperVars, timeVars, remote>>

-----------------------------------------------------------------------------
(* Bounds *)

\* longest `errors` sequence of a response envelope
MaxErrors == 2

\* the count of axios.create calls is kept up to this value
MaxCreated == 3

(* Program constants *)

\* api.js:76  timeout: 30000
Timeout == 30000

-----------------------------------------------------------------------------
(* JavaScript values *)

Undefined == [t |-> "undefined"]
Null == [t |-> "null"]
NaN == [t |-> "NaN"]
Str(s) == [t |-> "string", s |-> s]
Num(n) == [t |-> "number", n |-> n]
Bool(b) == [t |-> "boolean", b |-> b]
Arr(a) == [t |-> "array", a |-> a]

\* x === null || x === undefined
IsNullish(v) == v.t \in {"undefined", "null"}

\* JavaScript truthiness: what `!x`, `x || y`, `if (x)` look at
Truthy(v) ==
    CASE v.t = "undefined" -> FALSE
      [] v.t = "null" -> FALSE
      [] v.t = "NaN" -> FALSE
      [] v.t = "string" -> v.s # <<>>
      [] v.t = "number" -> v.n # 0
      [] v.t = "boolean" -> v.b
      [] OTHER -> TRUE

\* a ?? b
Coalesce(a, b) == IF IsNullish(a) THEN b ELSE a

\* a || b
OrElse(a, b) == IF Truthy(a) THEN a ELSE b

\* const { a = b } = options: the default applies to undefined only
Default(a, b) == IF a.t = "undefined" THEN b ELSE a

Digits == <<"0", "1", "2", "3", "4", "5", "6", "7", "8", "9">>

IsDigit(c) == \E i \in 1..10 : Digits[i] = c

DigitVal(c) == (CHOOSE i \in 1..10 : Digits[i] = c) - 1

RECURSIVE NatStr(_)
NatStr(n) == IF n < 10 THEN <<Digits[n + 1]>>
             ELSE NatStr(n \div 10) \o <<Digits[(n % 10) + 1]>>

\* String(v), as template literals and parseInt apply it
StringOf(v) ==
    CASE v.t = "string" -> v.s
      [] v.t = "number" -> IF v.n < 0 THEN <<"-">> \o NatStr(-v.n) ELSE NatStr(v.n)
      [] v.t = "boolean" -> IF v.b THEN <<"true">> ELSE <<"false">>
      [] v.t = "undefined" -> <<"undefined">>
      [] v.t = "null" -> <<"null">>
      [] OTHER -> <<"NaN">>

RECURSIVE SkipSpace(_)
SkipSpace(s) == IF s # <<>> /\ Head(s) \in {" ", "\t", "\n", "\r"}
                THEN SkipSpace(Tail(s)) ELSE s

RECURSIVE DigitRun(_)
DigitRun(s) == IF s # <<>> /\ IsDigit(Head(s)) THEN <<Head(s)>> \o DigitRun(Tail(s))
               ELSE <<>>

RECURSIVE DigitsValue(_, _)
DigitsValue(ds, acc) == IF ds = <<>> THEN acc
                        ELSE DigitsValue(Tail(ds), 10 * acc + DigitVal(Head(ds)))

\* parseInt(v, 10): leading white space, an optional sign, then the longest
\* run of decimal digits; NaN when that run is empty
parseInt(v) ==
    LET s0 == SkipSpace(StringOf(v))
        neg == s0 # <<>> /\ Head(s0) = "-"
        s1 == IF s0 # <<>> /\ Head(s0) \in {"-", "+"} THEN Tail(s0) ELSE s0
        ds == DigitRun(s1)
    IN IF ds = <<>> THEN NaN
       ELSE Num(IF neg THEN -DigitsValue(ds, 0) ELSE DigitsValue(ds, 0))

-----------------------------------------------------------------------------
(* Errors.  `origin` is not a field of the JavaScript object: it records     *)
(* which throw statement made the error, for the claims that classify       *)
(* failures.  What a caller can inspect is name, message, errors and code.  *)

NewError(msg, origin) ==
    [name |-> "Error", message |-> msg, errors |-> Undefined, code |-> "",
     origin |-> origin]

\* How Array.prototype.join renders one element: '' for null and undefined
JoinItem(v) == IF IsNullish(v) THEN <<>> ELSE StringOf(v)

\* errors.map(e => e.message).join('; ')
RECURSIVE JoinMessages(_)
JoinMessages(es) ==
    IF es = <<>> THEN <<>>
    ELSE IF Len(es) = 1 THEN JoinItem(Head(es).message)
    ELSE JoinItem(Head(es).message) \o <<"; ">> \o JoinMessages(Tail(es))

\* GraphQLError changed to take its message from the first entry only
GraphQLErrorFirstMessage(errors) ==
    [name |-> "GraphQLError",
     message |-> IF errors.a = <<>> THEN <<>> ELSE JoinItem(Head(errors.a).message),
     errors |-> errors, code |-> "", origin |-> "remote"]

\* new GraphQLError(errors), errors an array of {message} entries
GraphQLError(errors) ==
    [name |-> "GraphQLError", message |-> JoinMessages(errors.a), errors |-> errors,
     code |-> "", origin |-> "remote"]

\* What the transport rejects with when no response arrived (axios error
\* carrying a code, no response)
TransportError(code) ==
    [name |-> "AxiosError", message |-> <<code>>, errors |-> Undefined, code |-> code,
     origin |-> "transport"]

\* What the transport rejects with on an HTTP error status (axios error
\* carrying the response)
HttpError ==
    [name |-> "AxiosError", message |-> <<"Request failed">>, errors |-> Undefined,
     code |-> "ERR_BAD_RESPONSE", origin |-> "transport"]

-----------------------------------------------------------------------------
(* Sanitizer and validators *)

\* str.replace(/ch/g, rep) for a one-character pattern
RECURSIVE ReplaceAll(_, _, _)
ReplaceAll(s, ch, rep) ==
    IF s = <<>> THEN <<>>
    ELSE (IF Head(s) = ch THEN rep ELSE <<Head(s)>>) \o ReplaceAll(Tail(s), ch, rep)

\* sanitizeString with the double quote escaped before the backslash
sanitizeStringQuoteFirst(str) ==
    IF IsNullish(str) THEN <<>>
    ELSE LET s0 == StringOf(str)
             s1 == ReplaceAll(s0, "\"", <<"\\", "\"">>)
             s2 == ReplaceAll(s1, "\\", <<"\\", "\\">>)
             s3 == ReplaceAll(s2, "\n", <<"\\", "n">>)
             s4 == ReplaceAll(s3, "\r", <<"\\", "r">>)
         IN ReplaceAll(s4, "\t", <<"\\", "t">>)

sanitizeString(str) ==
    IF IsNullish(str) THEN <<>>
    ELSE LET s0 == StringOf(str)
             s1 == ReplaceAll(s0, "\\", <<"\\", "\\">>)
             s2 == ReplaceAll(s1, "\"", <<"\\", "\"">>)
             s3 == ReplaceAll(s2, "\n", <<"\\", "n">>)
             s4 == ReplaceAll(s3, "\r", <<"\\", "r">>)
         IN ReplaceAll(s4, "\t", <<"\\", "t">>)

Ok(v) == [ok |-> TRUE, val |-> v]
Fail(e) == [ok |-> FALSE, err |-> e]

\* validateId with the lower limit off by one: zero passes
validateIdFromZero(id) ==
    LET num == parseInt(id)
    IN IF num.t = "NaN" \/ num.n < 0
       THEN Fail(NewError(<<"Invalid ID: ">> \o StringOf(id), "validation"))
       ELSE Ok(num.n)

validateId(id) ==
    LET num == parseInt(id)
    IN IF num.t = "NaN" \/ num.n < 1
       THEN Fail(NewError(<<"Invalid ID: ">> \o StringOf(id), "validation"))
       ELSE Ok(num.n)

InvalidPathChars == {"<", ">", ":", "\"", "|", "?", "*"}

RECURSIVE StripSlashes(_)
StripSlashes(s) == IF s # <<>> /\ Head(s) = "/" THEN StripSlashes(Tail(s)) ELSE s

\* validatePath removing every leading slash instead of one
validatePathStripAll(path) ==
    IF ~Truthy(path) \/ path.t # "string"
    THEN Fail(NewError(<<"Path is required">>, "validation"))
    ELSE LET cleanPath == StripSlashes(path.s)
         IN IF \E i \in 1..Len(cleanPath) : cleanPath[i] \in InvalidPathChars
            THEN Fail(NewError(<<"Invalid characters in path: ">> \o path.s, "validation"))
            ELSE Ok(cleanPath)

validatePath(path) ==
    IF ~Truthy(path) \/ path.t # "string"
    THEN Fail(NewError(<<"Path is required">>, "validation"))
    ELSE LET cleanPath == IF Head(path.s) = "/" THEN Tail(path.s) ELSE path.s
         IN IF \E i \in 1..Len(cleanPath) : cleanPath[i] \in InvalidPathChars
            THEN Fail(NewError(<<"Invalid characters in path: ">> \o path.s, "validation"))
            ELSE Ok(cleanPath)

-----------------------------------------------------------------------------
(* Configuration (config.js) and the lazily built client (api.js)          *)
(* The module-level state is threaded as a record e:                       *)
(*   e.cachedConfig, e.client, e.created, e.loaded, e.reread               *)

FileAbsent == [exists |-> FALSE, json |-> FALSE, url |-> Undefined, apiToken |-> Undefined]
FileGarbage == [exists |-> TRUE, json |-> FALSE, url |-> Undefined, apiToken |-> Undefined]
FileOf(url, tok) == [exists |-> TRUE, json |-> TRUE, url |-> url, apiToken |-> tok]

WikiUrl == Str(<<"http://wiki">>)
Token == Str(<<"tok">>)

ConfigFiles == {FileAbsent, FileGarbage}
               \cup {FileOf(u, k) : u \in {Undefined, WikiUrl}, k \in {Undefined, Token}}

ConfigError(msg) == NewError(msg, "config")

Env == [cachedConfig |-> cachedConfig, client |-> client, created |-> created,
        loaded |-> loaded, reread |-> reread]

\* loadConfig(): [e |-> module state after the call, ok, val | err]
\* The file does not change while the program runs, so the ENOENT branch of
\* the catch (the file vanishing between existsSync and readFileSync) is
\* not taken; every other error is rethrown as "Failed to parse config: ..."
loadConfig(e) ==
    IF Truthy(e.cachedConfig) THEN [e |-> e, ok |-> TRUE, val |-> e.cachedConfig]
    ELSE IF ~configFile.exists
    THEN [e |-> e, ok |-> FALSE, err |-> ConfigError(<<"Config file not found">>)]
    ELSE \* readFileSync runs
      LET e1 == [e EXCEPT !.reread = e.reread \/ e.loaded]
      IN IF ~configFile.json
         THEN \* JSON.parse throws before the assignment to cachedConfig
              [e |-> e1, ok |-> FALSE,
               err |-> ConfigError(<<"Failed to parse config: ", "Unexpected token">>)]
         ELSE LET parsed == [t |-> "object", url |-> configFile.url,
                             apiToken |-> configFile.apiToken,
                             defaultLocale |-> Undefined,
                             defaultEditor |-> Undefined]
                  \* cachedConfig = JSON.parse(content) is assigned before validation
                  e2 == [e1 EXCEPT !.cachedConfig = parsed]
              IN IF ~Truthy(parsed.url)
                 THEN [e |-> e2, ok |-> FALSE,
                       err |-> ConfigError(<<"Failed to parse config: ",
                                             "Missing \"url\" in config">>)]
                 ELSE IF ~Truthy(parsed.apiToken)
                 THEN [e |-> e2, ok |-> FALSE,
                       err |-> ConfigError(<<"Failed to parse config: ",
                                             "Missing \"apiToken\" in config">>)]
                 ELSE [e |-> [e2 EXCEPT !.loaded = TRUE], ok |-> TRUE, val |-> parsed]

\* getClient changed to build a client on every call
getClientNoReuse(e) ==
    LET lc == loadConfig(e)
    IN IF ~lc.ok THEN lc
       ELSE LET n == IF lc.e.created < MaxCreated THEN lc.e.created + 1
                     ELSE lc.e.created
                c == [t |-> "object", id |-> n, baseURL |-> lc.val.url,
                      auth |-> <<"Bearer ">> \o StringOf(lc.val.apiToken),
                      timeout |-> Timeout]
            IN [e |-> [lc.e EXCEPT !.client = c, !.created = n],
                ok |-> TRUE, val |-> c]

\* getClient(): [e, ok, val | err]; val is the client
getClient(e) ==
    IF Truthy(e.client) THEN [e |-> e, ok |-> TRUE, val |-> e.client]
    ELSE LET lc == loadConfig(e)
         IN IF ~lc.ok THEN lc
            ELSE LET n == IF lc.e.created < MaxCreated THEN lc.e.created + 1
                          ELSE lc.e.created
                     c == [t |-> "object", id |-> n, baseURL |-> lc.val.url,
                           auth |-> <<"Bearer ">> \o StringOf(lc.val.apiToken),
                           timeout |-> Timeout]
                 IN [e |-> [lc.e EXCEPT !.client = c, !.created = n],
                     ok |-> TRUE, val |-> c]

-----------------------------------------------------------------------------
(* graphql(query): the part before the await, and the part after it *)

NoReq == [via |-> "none"]
NoWork == [validId |-> 0, page |-> Undefined]

Raise(e, err) == [e |-> e, kind |-> "throw", err |-> err]
Send(e, r, w) == [e |-> e, kind |-> "request", req |-> r, work |-> w]
Return(e, v) == [e |-> e, kind |-> "return", val |-> v]

\* v?.f
Get(v, f) == IF IsNullish(v) THEN Undefined ELSE v[f]

Query(field, args) == [kind |-> "query", field |-> field, args |-> args]
Mutation(field, args) == [kind |-> "mutation", field |-> field, args |-> args]

\* getClient().post('/graphql', { query })
graphql(query, e, w) ==
    LET gc == getClient(e)
    IN IF ~gc.ok THEN Raise(gc.e, gc.err)
       ELSE Send(gc.e,
                 [via |-> "client", clientId |-> gc.val.id, baseURL |-> gc.val.baseURL,
                  url |-> "/graphql", auth |-> gc.val.auth, timeout |-> gc.val.timeout,
                  query |-> query],
                 w)

\* interceptor changed to wrap every failure in a new error
interceptorWrapsAll(o) ==
    IF o.kind = "http2xx" THEN Ok(o.body)
    ELSE IF o.kind = "httpError" /\ Truthy(Get(o.body, "errors"))
    THEN Fail(GraphQLError(o.body.errors))
    ELSE Fail(NewError(o.error.message, "transport"))

\* The response interceptor installed by getClient.  An outcome o is
\*   [kind |-> "http2xx", body], [kind |-> "httpError", body, error] or
\*   [kind |-> "noResponse", error]; body is response.data
interceptor(o) ==
    IF o.kind = "http2xx" THEN Ok(o.body)
    ELSE IF o.kind = "httpError" /\ Truthy(Get(o.body, "errors"))
    THEN Fail(GraphQLError(o.body.errors))
    ELSE Fail(o.error)

\* graphql(query) after the post has settled
graphqlSettled(o) ==
    LET r == interceptor(o)
    IN IF ~r.ok THEN r
       ELSE IF Truthy(Get(r.val, "errors")) /\ Len(r.val.errors.a) > 0
       THEN Fail(GraphQLError(r.val.errors))
       ELSE Ok(Get(r.val, "data"))

-----------------------------------------------------------------------------
(* Text of the values interpolated into an operation *)

\* The escapes JSON.stringify applies to the characters the model uses
JSONescape(s) ==
    LET s1 == ReplaceAll(s, "\\", <<"\\", "\\">>)
        s2 == ReplaceAll(s1, "\"", <<"\\", "\"">>)
        s3 == ReplaceAll(s2, "\n", <<"\\", "n">>)
        s4 == ReplaceAll(s3, "\r", <<"\\", "r">>)
    IN ReplaceAll(s4, "\t", <<"\\", "t">>)

RECURSIVE JSONstringify(_)
RECURSIVE JSONitems(_)
JSONitems(a) ==
    IF a = <<>> THEN <<>>
    ELSE IF Len(a) = 1 THEN JSONstringify(Head(a))
    ELSE JSONstringify(Head(a)) \o <<",">> \o JSONitems(Tail(a))

\* `${JSON.stringify(v)}`
JSONstringify(v) ==
    CASE v.t = "string" -> <<"\"">> \o JSONescape(v.s) \o <<"\"">>
      [] v.t = "array" -> <<"[">> \o JSONitems(v.a) \o <<"]">>
      [] OTHER -> StringOf(v)

-----------------------------------------------------------------------------
(* Operations.  A call c is [op, id, id2, path, options].  Each operation   *)
(* has a ...Begin operator, the code that runs when it is called, up to its *)
(* first await, and a ...Settled operator, the code that runs when the      *)
(* request it awaits has settled with outcome o (n requests sent so far).   *)

\* succeededOrThrow changed to ignore the remote message
succeededOrThrowDefaultOnly(g, defaultMessage) ==
    IF ~g.ok THEN g
    ELSE IF ~Truthy(Get(Get(g.val, "responseResult"), "succeeded"))
    THEN Fail(NewError(<<defaultMessage>>, "remote"))
    ELSE Ok(g.val)

\* The `if (!result?.responseResult?.succeeded) throw new Error(message || default)`
\* block that ends every mutation
succeededOrThrow(g, defaultMessage) ==
    IF ~g.ok THEN g
    ELSE LET rr == Get(g.val, "responseResult")
         IN IF ~Truthy(Get(rr, "succeeded"))
            THEN Fail(NewError(StringOf(OrElse(Get(rr, "message"),
                                               Str(<<defaultMessage>>))),
                               "remote"))
            ELSE Ok(g.val)

Finish(r, e, v) == IF r.ok THEN Return(e, v) ELSE Raise(e, r.err)

Obj2(k1, v1, k2, v2) == [t |-> "object"] @@ (k1 :> v1) @@ (k2 :> v2)

listTagsBegin(c, e) == graphql(Query("pages.tags", <<>>), e, NoWork)

listTagsSettled(c, w, n, o, e) ==
    LET g == graphqlSettled(o)
    IN Finish(g, e, IF g.ok THEN OrElse(g.val, Arr(<<>>)) ELSE Undefined)

\* api.js:96  limit = 50
DefaultLimit == 50

\* a.slice(0, end) for an integer end: a negative end counts from the end
slice0(a, end) ==
    LET k == IF end < 0 THEN (IF Len(a) + end < 0 THEN 0 ELSE Len(a) + end)
             ELSE (IF end > Len(a) THEN Len(a) ELSE end)
    IN SubSeq(a, 1, k)

\* s.toLowerCase(), on the letters the inputs use
toLowerCase(s) ==
    [i \in 1..Len(s) |-> CASE s[i] = "A" -> "a" [] s[i] = "B" -> "b"
                            [] s[i] = "L" -> "l" [] OTHER -> s[i]]

\* s.includes(sub)
includes(s, sub) ==
    \E i \in 0..(Len(s) - Len(sub)) : SubSeq(s, i + 1, i + Len(sub)) = sub

listPagesBegin(c, e) == graphql(Query("pages.list", <<>>), e, NoWork)

\* listPages after the await: the three filters, then the limit
listPagesSettled(c, w, n, o, e) ==
    LET g == graphqlSettled(o)
        opt == c.options
        limit == Default(opt.limit, Num(DefaultLimit))
        ByLocale(pg) == pg.locale = opt.locale
        ByTag(pg) == Truthy(pg.tags) /\ \E i \in 1..Len(pg.tags.a) : pg.tags.a[i] = opt.tag
        ByAuthor(pg) == /\ Truthy(pg.authorName)
                        /\ includes(toLowerCase(pg.authorName.s), toLowerCase(opt.author.s))
        p0 == IF g.ok THEN OrElse(g.val, Arr(<<>>)).a ELSE <<>>
        p1 == IF Truthy(opt.locale) THEN SelectSeq(p0, ByLocale) ELSE p0
        p2 == IF Truthy(opt.tag) THEN SelectSeq(p1, ByTag) ELSE p1
        p3 == IF Truthy(opt.author) THEN SelectSeq(p2, ByAuthor) ELSE p2
    IN Finish(g, e, Arr(slice0(p3, limit.n)))

\* page.tags.map(t => t.tag)
FlattenTags(tags) == Arr([i \in 1..Len(tags.a) |-> tags.a[i].tag])

getPageBegin(idOrPath, e, w) ==
    LET lc == loadConfig(e)
    IN IF ~lc.ok THEN Raise(lc.e, lc.err)
       ELSE IF idOrPath.t = "number"
       THEN LET v == validateId(idOrPath)
            IN IF ~v.ok THEN Raise(lc.e, v.err)
               ELSE graphql(Query("pages.single", [id |-> NatStr(v.val)]), lc.e, w)
       ELSE LET locale == OrElse(lc.val.defaultLocale, Str(<<"en">>))
            IN graphql(Query("pages.singleByPath",
                             [path |-> sanitizeString(idOrPath),
                              locale |-> sanitizeString(locale)]),
                       lc.e, w)

\* getPageSettled that leaves the {tag} objects as they came
getPageSettledKeepsTags(idOrPath, g) ==
    IF ~g.ok THEN g
    ELSE IF ~Truthy(g.val)
    THEN Fail(NewError(<<"Page not found: ">> \o StringOf(idOrPath), "remote"))
    ELSE Ok(g.val)

\* getPage from the settled lookup to its return (no children requested)
getPageSettled(idOrPath, g) ==
    IF ~g.ok THEN g
    ELSE LET page == IF Truthy(g.val) /\ Truthy(g.val.tags)
                     THEN [g.val EXCEPT !.tags = FlattenTags(g.val.tags)]
                     ELSE g.val
         IN IF ~Truthy(page)
            THEN Fail(NewError(<<"Page not found: ">> \o StringOf(idOrPath), "remote"))
            ELSE Ok(page)

\* the second query of getPage: id, path and title of every page
ChildQuery == Query("pages.list", <<"id", "path", "title">>)

\* s.startsWith(prefix)
startsWith(s, prefix) == Len(s) >= Len(prefix) /\ SubSeq(s, 1, Len(prefix)) = prefix

\* getPageResumed that fetches the list whatever withChildren is
getPageResumedAlwaysLists(c, w, n, o, e) ==
    IF n = 1
    THEN LET gp == getPageSettled(c.id, graphqlSettled(o))
         IN IF ~gp.ok THEN Raise(e, gp.err)
            ELSE graphql(ChildQuery, e, [w EXCEPT !.page = gp.val])
    ELSE LET g == graphqlSettled(o)
         IN IF ~g.ok THEN Raise(e, g.err)
            ELSE LET allPages == OrElse(g.val, Arr(<<>>)).a
                     page == w.page
                     IsChild(q) == /\ startsWith(q.path.s, page.path.s \o <<"/">>)
                                   /\ q.id # page.id
                 IN Return(e, ("children" :> Arr(SelectSeq(allPages, IsChild))) @@ page)

\* getPageResumed whose children are the pages whose path begins with the
\* parent's path, with or without a '/' after it
getPageResumedPrefixOnly(c, w, n, o, e) ==
    IF n = 1
    THEN LET gp == getPageSettled(c.id, graphqlSettled(o))
         IN IF ~gp.ok THEN Raise(e, gp.err)
            ELSE IF Truthy(Default(Get(c.options, "withChildren"), Bool(FALSE)))
            THEN graphql(ChildQuery, e, [w EXCEPT !.page = gp.val])
            ELSE Return(e, gp.val)
    ELSE LET g == graphqlSettled(o)
         IN IF ~g.ok THEN Raise(e, g.err)
            ELSE LET allPages == OrElse(g.val, Arr(<<>>)).a
                     page == w.page
                     IsChild(q) == /\ startsWith(q.path.s, page.path.s)
                                   /\ q.id # page.id
                 IN Return(e, ("children" :> Arr(SelectSeq(allPages, IsChild))) @@ page)

\* getPage from its first await on: the lookup has settled (n = 1), or the
\* list fetched for the children has (n = 2)
getPageResumed(c, w, n, o, e) ==
    IF n = 1
    THEN LET gp == getPageSettled(c.id, graphqlSettled(o))
         IN IF ~gp.ok THEN Raise(e, gp.err)
            ELSE IF Truthy(Default(Get(c.options, "withChildren"), Bool(FALSE)))
            THEN graphql(ChildQuery, e, [w EXCEPT !.page = gp.val])
            ELSE Return(e, gp.val)
    ELSE LET g == graphqlSettled(o)
         IN IF ~g.ok THEN Raise(e, g.err)
            ELSE LET allPages == OrElse(g.val, Arr(<<>>)).a
                     page == w.page
                     IsChild(q) == /\ startsWith(q.path.s, page.path.s \o <<"/">>)
                                   /\ q.id # page.id
                 IN Return(e, ("children" :> Arr(SelectSeq(allPages, IsChild))) @@ page)

createPageBegin(c, e) ==
    LET lc == loadConfig(e)
    IN IF ~lc.ok THEN Raise(lc.e, lc.err)
       ELSE LET vp == validatePath(c.path)
            IN IF ~vp.ok THEN Raise(lc.e, vp.err)
               ELSE LET opt == c.options
                        locale == Default(opt.locale,
                                           OrElse(lc.val.defaultLocale, Str(<<"en">>)))
                        editor == Default(opt.editor,
                                           OrElse(lc.val.defaultEditor,
                                                  Str(<<"markdown">>)))
                    IN graphql(Mutation("pages.create",
                         [content |-> JSONstringify(Default(opt.content, Str(<<>>))),
                          description |->
                              JSONstringify(Default(opt.description, Str(<<>>))),
                          editor |-> sanitizeString(editor),
                          isPrivate |-> StringOf(Default(opt.isPrivate, Bool(FALSE))),
                          isPublished |-> StringOf(Default(opt.isPublished, Bool(TRUE))),
                          locale |-> sanitizeString(locale),
                          path |-> sanitizeString(Str(vp.val)),
                          tags |-> JSONstringify(Default(opt.tags, Arr(<<>>))),
                          title |-> JSONstringify(c.options.title)]),
                         lc.e, NoWork)

createPageSettled(c, w, n, o, e) ==
    LET r == succeededOrThrow(graphqlSettled(o), "Failed to create page")
    IN Finish(r, e, IF r.ok THEN r.val.page ELSE Undefined)

updatePageBegin(c, e) ==
    LET v == validateId(c.id)
    IN IF ~v.ok THEN Raise(e, v.err)
       ELSE getPageBegin(Num(v.val), e, [NoWork EXCEPT !.validId = v.val])

\* updateMutation changed to merge with || instead of ??
updateMutationOrElse(validId, opt, currentPage) ==
    Mutation("pages.update",
             [id |-> NatStr(validId),
              content |-> JSONstringify(OrElse(opt.content, currentPage.content)),
              description |-> JSONstringify(
                  OrElse(OrElse(opt.description, currentPage.description), Str(<<>>))),
              isPublished |-> StringOf(OrElse(opt.isPublished, currentPage.isPublished)),
              tags |-> JSONstringify(
                  OrElse(OrElse(opt.tags, currentPage.tags), Arr(<<>>))),
              title |-> JSONstringify(OrElse(opt.title, currentPage.title))])

\* The mutation updatePage builds from its options and the fetched page
updateMutation(validId, opt, currentPage) ==
    Mutation("pages.update",
             [id |-> NatStr(validId),
              content |-> JSONstringify(Coalesce(opt.content, currentPage.content)),
              description |-> JSONstringify(
                  Coalesce(Coalesce(opt.description, currentPage.description), Str(<<>>))),
              isPublished |-> StringOf(Coalesce(opt.isPublished, currentPage.isPublished)),
              tags |-> JSONstringify(
                  Coalesce(Coalesce(opt.tags, currentPage.tags), Arr(<<>>))),
              title |-> JSONstringify(Coalesce(opt.title, currentPage.title))])

updatePageSettled(c, w, n, o, e) ==
    IF n = 1
    THEN LET gp == getPageSettled(Num(w.validId), graphqlSettled(o))
         IN IF ~gp.ok THEN Raise(e, gp.err)
            ELSE graphql(updateMutation(w.validId, c.options, gp.val), e,
                         [w EXCEPT !.page = gp.val])
    ELSE LET r == succeededOrThrow(graphqlSettled(o), "Failed to update page")
         IN Finish(r, e, IF r.ok THEN r.val.page ELSE Undefined)

movePageBegin(c, e) ==
    LET lc == loadConfig(e)
    IN IF ~lc.ok THEN Raise(lc.e, lc.err)
       ELSE LET v == validateId(c.id)
            IN IF ~v.ok THEN Raise(lc.e, v.err)
               ELSE LET vp == validatePath(c.path)
                    IN IF ~vp.ok THEN Raise(lc.e, vp.err)
                       ELSE graphql(Mutation("pages.move",
                              [id |-> NatStr(v.val),
                               destinationPath |-> sanitizeString(Str(vp.val)),
                               destinationLocale |->
                                   sanitizeString(OrElse(lc.val.defaultLocale,
                                                         Str(<<"en">>)))]),
                              lc.e, [NoWork EXCEPT !.validId = v.val])

movePageSettled(c, w, n, o, e) ==
    LET r == succeededOrThrow(graphqlSettled(o), "Failed to move page")
    IN Finish(r, e, Obj2("success", Bool(TRUE), "newPath", c.path))

deletePageBegin(c, e) ==
    LET v == validateId(c.id)
    IN IF ~v.ok THEN Raise(e, v.err)
       ELSE graphql(Mutation("pages.delete", [id |-> NatStr(v.val)]), e,
                    [NoWork EXCEPT !.validId = v.val])

deletePageSettled(c, w, n, o, e) ==
    LET r == succeededOrThrow(graphqlSettled(o), "Failed to delete page")
    IN Finish(r, e, Obj2("success", Bool(TRUE), "id", c.id))

deleteAssetBegin(c, e) ==
    LET v == validateId(c.id)
    IN IF ~v.ok THEN Raise(e, v.err)
       ELSE graphql(Mutation("assets.deleteAsset", [id |-> NatStr(v.val)]), e,
                    [NoWork EXCEPT !.validId = v.val])

deleteAssetSettled(c, w, n, o, e) ==
    LET r == succeededOrThrow(graphqlSettled(o), "Failed to delete asset")
    IN Finish(r, e, Obj2("success", Bool(TRUE), "id", c.id))

getPageVersionsBegin(c, e) ==
    LET v == validateId(c.id)
    IN IF ~v.ok THEN Raise(e, v.err)
       ELSE graphql(Query("pages.history", [id |-> NatStr(v.val)]), e,
                    [NoWork EXCEPT !.validId = v.val])

getPageVersionsSettled(c, w, n, o, e) ==
    LET g == graphqlSettled(o)
    IN Finish(g, e, IF g.ok THEN OrElse(g.val, Arr(<<>>)) ELSE Undefined)

\* revertPageBegin changed to validate the page id only
revertPageBeginPageIdOnly(c, e) ==
    LET v == validateId(c.id)
    IN IF ~v.ok THEN Raise(e, v.err)
       ELSE graphql(Mutation("pages.restore",
                             [pageId |-> NatStr(v.val),
                              versionId |-> StringOf(c.id2)]),
                    e, [NoWork EXCEPT !.validId = v.val])

revertPageBegin(c, e) ==
    LET v == validateId(c.id)
    IN IF ~v.ok THEN Raise(e, v.err)
       ELSE LET v2 == validateId(c.id2)
            IN IF ~v2.ok THEN Raise(e, v2.err)
               ELSE graphql(Mutation("pages.restore",
                                     [pageId |-> NatStr(v.val),
                                      versionId |-> NatStr(v2.val)]),
                            e, [NoWork EXCEPT !.validId = v.val])

revertPageSettled(c, w, n, o, e) ==
    LET r == succeededOrThrow(graphqlSettled(o), "Failed to revert page")
    IN Finish(r, e, [t |-> "object", success |-> Bool(TRUE), pageId |-> c.id,
                     versionId |-> c.id2])

\* basename(filePath): what follows the last "/"
RECURSIVE basename(_)
basename(s) == IF \E i \in 1..Len(s) : s[i] = "/" THEN basename(Tail(s)) ELSE s

\* c.options.fileExists stands for the file system: whether statSync finds
\* the file.  The request goes through axios.post directly: no client, no
\* interceptor, and no timeout option
uploadAssetBegin(c, e) ==
    IF ~c.options.fileExists
    THEN Raise(e, [name |-> "Error", message |-> <<"ENOENT">>, errors |-> Undefined,
                   code |-> "ENOENT", origin |-> "fs"])
    ELSE LET filename == StringOf(OrElse(c.options.rename, Str(basename(c.path.s))))
             lc == loadConfig(e)
         IN IF ~lc.ok THEN Raise(lc.e, lc.err)
            ELSE Send(lc.e,
                      [via |-> "axios", clientId |-> 0, baseURL |-> lc.val.url,
                       url |-> "/u",
                       auth |-> <<"Bearer ">> \o StringOf(lc.val.apiToken),
                       timeout |-> 0,
                       query |-> [kind |-> "upload", field |-> "mediaUpload",
                                  args |-> [filename |-> filename]]],
                      NoWork)

uploadAssetSettled(c, w, n, o, e) ==
    IF o.kind = "http2xx" THEN Return(e, o.body) ELSE Raise(e, o.error)

\* Names every plain object inherits from Object.prototype (one of them):
\* looked up in an object literal they are found, and truthy, although no
\* property of that name was ever stored
PrototypeKeys == {<<"constructor">>}

\* the list query of getStats: id, locale, isPublished and tags of every page
StatsQuery == Query("pages.list", <<"id", "locale", "isPublished", "tags">>)

getStatsBegin(c, e) == graphql(StatsQuery, e, NoWork)

\* obj[key] = (obj[key] || 0) + 1 on an object literal, for each key in turn.
\* A key the object does not own is looked up on Object.prototype: for an
\* inherited name the lookup gives a function, and function + 1 is a string
RECURSIVE Tally(_, _)
Tally(obj, keys) ==
    IF keys = <<>> THEN obj
    ELSE LET key == Head(keys)
             old == IF key \in DOMAIN obj THEN obj[key]
                    ELSE IF key \in PrototypeKeys
                    THEN Str(<<"function Object() { [native code] }">>)
                    ELSE Num(0)
             new == IF old.t = "number" THEN Num(old.n + 1)
                    ELSE Str(old.s \o <<"1">>)
         IN Tally((key :> new) @@ obj, Tail(keys))

\* getStats after the await: the counts, then one pass over the pages
getStatsSettled(c, w, n, o, e) ==
    LET g == graphqlSettled(o)
        pages == IF g.ok THEN OrElse(g.val, Arr(<<>>)).a ELSE <<>>
        TagKeys(i) == LET tags == OrElse(pages[i].tags, Arr(<<>>)).a
                      IN [j \in 1..Len(tags) |-> tags[j].s]
        AllTagKeys[i \in 0..Len(pages)] ==
            IF i = 0 THEN <<>> ELSE AllTagKeys[i - 1] \o TagKeys(i)
    IN Finish(g, e,
              [t |-> "object",
               totalPages |-> Num(Len(pages)),
               publishedPages |-> Num(Len(SelectSeq(pages, LAMBDA q : Truthy(q.isPublished)))),
               draftPages |-> Num(Len(SelectSeq(pages, LAMBDA q : ~Truthy(q.isPublished)))),
               locales |-> Tally(<< >>, [i \in 1..Len(pages) |-> pages[i].locale.s]),
               topTags |-> Tally(<< >>, AllTagKeys[Len(pages)])])

Begin(c, e) ==
    CASE c.op = "listTags" -> listTagsBegin(c, e)
      [] c.op = "listPages" -> listPagesBegin(c, e)
      [] c.op = "getPage" -> getPageBegin(c.id, e, NoWork)
      [] c.op = "createPage" -> createPageBegin(c, e)
      [] c.op = "updatePage" -> updatePageBegin(c, e)
      [] c.op = "movePage" -> movePageBegin(c, e)
      [] c.op = "deletePage" -> deletePageBegin(c, e)
      [] c.op = "deleteAsset" -> deleteAssetBegin(c, e)
      [] c.op = "getPageVersions" -> getPageVersionsBegin(c, e)
      [] c.op = "revertPage" -> revertPageBegin(c, e)
      [] c.op = "uploadAsset" -> uploadAssetBegin(c, e)
      [] c.op = "getStats" -> getStatsBegin(c, e)

Settled(c, w, n, o, e) ==
    CASE c.op = "listTags" -> listTagsSettled(c, w, n, o, e)
      [] c.op = "listPages" -> listPagesSettled(c, w, n, o, e)
      [] c.op = "getPage" -> getPageResumed(c, w, n, o, e)
      [] c.op = "createPage" -> createPageSettled(c, w, n, o, e)
      [] c.op = "updatePage" -> updatePageSettled(c, w, n, o, e)
      [] c.op = "movePage" -> movePageSettled(c, w, n, o, e)
      [] c.op = "deletePage" -> deletePageSettled(c, w, n, o, e)
      [] c.op = "deleteAsset" -> deleteAssetSettled(c, w, n, o, e)
      [] c.op = "getPageVersions" -> getPageVersionsSettled(c, w, n, o, e)
      [] c.op = "revertPage" -> revertPageSettled(c, w, n, o, e)
      [] c.op = "uploadAsset" -> uploadAssetSettled(c, w, n, o, e)
      [] c.op = "getStats" -> getStatsSettled(c, w, n, o, e)

-----------------------------------------------------------------------------
(* Inputs: what callers pass and what the network can deliver *)

Callers == {"c1", "c2"}

RawIds == {Num(-1), Num(0), Num(2), Str(<<"1", "2", "a">>), Str(<<"x">>)}

RawPaths == {Str(<<"/", "d">>), Str(<<"d">>), Str(<<"d", "<">>), Str(<<>>), Undefined}

NoOptions == [content |-> Undefined, title |-> Undefined, description |-> Undefined,
              tags |-> Undefined, isPublished |-> Undefined]

UpdateOptions ==
    [content : {Undefined, Str(<<>>)},
     title : {Undefined, Str(<<"N">>)},
     description : {Undefined, Str(<<>>)},
     tags : {Undefined, Arr(<<>>)},
     isPublished : {Undefined, Bool(FALSE)}]

CreateOptions == [content |-> Undefined, title |-> Str(<<"T">>), description |-> Undefined,
                  tags |-> Undefined, isPublished |-> Undefined, isPrivate |-> Undefined,
                  locale |-> Undefined, editor |-> Undefined]

CallOf(op, id, id2, path, options) ==
    [op |-> op, id |-> id, id2 |-> id2, path |-> path, options |-> options]

NoCall == CallOf("none", Undefined, Undefined, Undefined, Undefined)

\* listPages({tag, author, locale, limit})
ListOptions ==
    [tag : {Undefined, Str(<<"t">>)},
     author : {Undefined, Str(<<"a", "L">>)},
     locale : {Undefined, Str(<<"en">>)},
     limit : {Undefined, Num(0), Num(1), Num(-1)}]

Calls ==
    {CallOf("listTags", Undefined, Undefined, Undefined, Undefined),
     CallOf("getStats", Undefined, Undefined, Undefined, Undefined)}
    \cup {CallOf("listPages", Undefined, Undefined, Undefined, o) : o \in ListOptions}
    \cup {CallOf("getPage", i, Undefined, Undefined, Undefined) :
             i \in {Num(-1), Num(0), Num(2), Str(<<"d">>), Str(<<"1", "2">>),
                    Str(<<"/", "d", "\"">>)}}
    \cup {CallOf("getPage", i, Undefined, Undefined, [t |-> "object", withChildren |-> b]) :
             i \in {Num(2), Str(<<"d">>)}, b \in {Bool(TRUE), Bool(FALSE)}}
    \cup {CallOf("createPage", Undefined, Undefined, q, CreateOptions) : q \in RawPaths}
    \cup {CallOf("updatePage", i, Undefined, Undefined, o) :
             i \in RawIds, o \in UpdateOptions}
    \cup {CallOf("movePage", i, Undefined, q, Undefined) : i \in RawIds, q \in RawPaths}
    \cup {CallOf(op, i, Undefined, Undefined, Undefined) :
             op \in {"deletePage", "deleteAsset", "getPageVersions"}, i \in RawIds}
    \cup {CallOf("revertPage", i, j, Undefined, Undefined) : i \in RawIds, j \in RawIds}
    \cup {CallOf("uploadAsset", Undefined, Undefined, Str(<<"u", "/", "f">>),
                 [fileExists |-> b, rename |-> Undefined]) : b \in BOOLEAN}

\* The calls of the specification with two callers in parallel
ParCalls ==
    {CallOf("listTags", Undefined, Undefined, Undefined, Undefined),
     CallOf("getPage", Num(2), Undefined, Undefined, Undefined),
     CallOf("updatePage", Num(2), Undefined, Undefined, NoOptions),
     CallOf("deletePage", Num(2), Undefined, Undefined, Undefined),
     CallOf("deletePage", Num(0), Undefined, Undefined, Undefined),
     CallOf("uploadAsset", Undefined, Undefined, Str(<<"u", "/", "f">>),
            [fileExists |-> TRUE, rename |-> Undefined])}

TagObj(s) == [t |-> "object", tag |-> Str(s)]

PageOf(description, tags) ==
    [t |-> "object", id |-> Num(2), path |-> Str(<<"d">>), title |-> Str(<<"T">>),
     description |-> description, content |-> Str(<<"c">>), tags |-> tags,
     isPublished |-> Bool(TRUE)]

Pages == {PageOf(d, g) : d \in {Null, Str(<<"d">>)},
                         g \in {Null, Arr(<<TagObj(<<"t">>)>>),
                                Arr(<<TagObj(<<"u">>), TagObj(<<"t">>)>>)}}

PageStub == [t |-> "object", id |-> Num(2), path |-> Str(<<"d">>), title |-> Str(<<"T">>)]

\* longest page list a response carries
MaxPages == 2

ListItem(id, locale, tags, authorName) ==
    [t |-> "object", id |-> Num(id), locale |-> Str(<<locale>>), tags |-> tags,
     authorName |-> authorName]

\* entries of pages.list; authorName is not among the fields the list query
\* asks for, and a server may or may not send it
ListItems ==
    {ListItem(1, "en", Arr(<<Str(<<"t">>)>>), Str(<<"A", "l">>)),
     ListItem(2, "fr", Arr(<<Str(<<"u">>), Str(<<"t">>)>>), Undefined),
     ListItem(3, "en", Null, Undefined),
     ListItem(4, "en", Arr(<<Str(<<"t">>)>>), Str(<<"B", "o">>))}

PageLists == {Arr(l) : l \in UNION {[1..k -> ListItems] : k \in 0..MaxPages}}

\* entries of the list fetched for the children of the page "d" (id 2):
\* the page itself, a child, a grandchild, and a page whose path only
\* begins with the same letters
ChildItems ==
    {[t |-> "object", id |-> Num(x[1]), path |-> Str(x[2]), title |-> Str(<<"T">>)] :
        x \in {<<2, <<"d">>>>, <<3, <<"d", "/", "e">>>>,
               <<4, <<"d", "/", "e", "/", "f">>>>, <<5, <<"d", "x">>>>}}

\* entries of the list getStats fetches: published pages and drafts, with
\* tags, without, and with a tag named like a property objects inherit
StatsItems ==
    {[t |-> "object", id |-> Num(x[1]), locale |-> Str(<<x[2]>>),
      isPublished |-> Bool(x[3]), tags |-> x[4]] :
        x \in {<<1, "en", TRUE, Arr(<<Str(<<"t">>)>>)>>,
               <<2, "fr", FALSE, Arr(<<Str(<<"u">>), Str(<<"t">>)>>)>>,
               <<3, "en", TRUE, Null>>,
               <<4, "en", FALSE, Arr(<<Str(<<"constructor">>)>>)>>}}

StatsLists == {Arr(l) : l \in UNION {[1..k -> StatsItems] : k \in 0..MaxPages}}

ChildLists == {Arr(l) : l \in UNION {[1..k -> ChildItems] : k \in 0..MaxPages}}

ResponseResult(succeeded, message) ==
    [t |-> "object", succeeded |-> succeeded, message |-> message]

MutationPayload(rr) == [t |-> "object", responseResult |-> rr, page |-> PageStub]

RemoteMessages == {Undefined, Str(<<>>), Str(<<"Path already exists">>)}

MutationPayloads ==
    {Undefined, MutationPayload(Undefined)}
    \cup {MutationPayload(ResponseResult(Bool(b), m)) : b \in BOOLEAN, m \in RemoteMessages}

\* What data?.<...> of a response to query q can be
Payloads(q) ==
    CASE q.kind = "mutation" -> MutationPayloads
      [] q.field \in {"pages.single", "pages.singleByPath"} ->
            {Undefined, Null} \cup Pages
      [] q.field = "pages.list" /\ q.args = ChildQuery.args -> {Undefined} \cup ChildLists
      [] q.field = "pages.list" /\ q.args = StatsQuery.args -> {Undefined} \cup StatsLists
      [] q.field = "pages.list" -> {Undefined} \cup PageLists
      [] OTHER -> {Undefined, Arr(<<>>), Arr(<<Str(<<"x">>)>>)}

ErrorEntries == {[message |-> Str(<<"a">>)], [message |-> Str(<<"b">>)]}

ErrorSeqs == UNION {[1..k -> ErrorEntries] : k \in 0..MaxErrors}

ErrorsFields == {Undefined} \cup {Arr(es) : es \in ErrorSeqs}

Envelope(errors, data) == [t |-> "object", errors |-> errors, data |-> data]

\* The HTTP responses a request r can get
Responses(r) ==
    IF r.via = "axios"
    THEN {[kind |-> "http2xx", body |-> Str(<<"ok">>)],
          [kind |-> "httpError", body |-> Undefined, error |-> HttpError]}
    ELSE {[kind |-> "http2xx", body |-> Envelope(x, Undefined)] :
             x \in {Arr(es) : es \in ErrorSeqs \ {<<>>}}}
         \cup {[kind |-> "http2xx", body |-> Envelope(x, d)] :
                  x \in {Undefined, Arr(<<>>)}, d \in Payloads(r.query)}
         \cup {[kind |-> "httpError", body |-> b, error |-> HttpError] :
                  b \in {Undefined} \cup {Envelope(x, Undefined) : x \in ErrorsFields}}

\* The responses of the specification with two callers in parallel
ParResponses(r) ==
    IF r.via = "axios"
    THEN {[kind |-> "http2xx", body |-> Str(<<"ok">>)]}
    ELSE {[kind |-> "http2xx", body |-> Envelope(Arr(<<[message |-> Str(<<"a">>)]>>),
                                                 Undefined)]}
         \cup {[kind |-> "http2xx", body |-> Envelope(Undefined, d)] :
                  d \in IF r.query.kind = "mutation"
                        THEN {MutationPayload(ResponseResult(Bool(b), Undefined)) :
                                 b \in BOOLEAN}
                        ELSE IF r.query.field = "pages.single"
                        THEN {Undefined, PageOf(Str(<<"d">>), Null)}
                        ELSE {Arr(<<>>)}}

FailureCodes == {"ECONNREFUSED", "ENOTFOUND"}

-----------------------------------------------------------------------------
(* Actions *)

NoResult == [kind |-> "none"]
NoResponse == [kind |-> "none"]

Install(e) ==
    /\ cachedConfig' = e.cachedConfig
    /\ client' = e.client
    /\ created' = e.created
    /\ loaded' = e.loaded
    /\ reread' = e.reread

\* What a synchronous stretch of an operation leaves behind for caller p
Apply(p, r) ==
    /\ Install(r.e)
    /\ IF r.kind = "request"
       THEN /\ pc' = [pc EXCEPT ![p] = "await"]
            /\ req' = [req EXCEPT ![p] = r.req]
            /\ sent' = [sent EXCEPT ![p] = Append(sent[p], r.req)]
            /\ work' = [work EXCEPT ![p] = r.work]
            /\ result' = [result EXCEPT ![p] = NoResult]
       ELSE /\ pc' = [pc EXCEPT ![p] = "done"]
            /\ req' = [req EXCEPT ![p] = NoReq]
            /\ sent' = sent
            /\ work' = work
            /\ result' = [result EXCEPT ![p] =
                             IF r.kind = "throw" THEN [kind |-> "throw", err |-> r.err]
                             ELSE [kind |-> "return", val |-> r.val]]

\* Caller p calls operation c: the code up to the first await runs
Call(p, c) ==
    /\ pc[p] = "idle"
    /\ call' = [call EXCEPT ![p] = c]
    /\ response' = response
    /\ Apply(p, Begin(c, Env))
    /\ UNCHANGED <<configFile, helperVars, timeVars, remote>>

\* The request of p settles with outcome o and the code after the await runs
Settle(p, o) ==
    /\ pc[p] = "await"
    /\ response' = [response EXCEPT ![p] = o]
    /\ Apply(p, Settled(call[p], work[p], Len(sent[p]), o, Env))
    /\ UNCHANGED <<configFile, call, helperVars, timeVars, remote>>

\* An HTTP response arrives
Respond(p, o) == Settle(p, o)

\* The connection fails: no response
Disconnect(p, code) ==
    Settle(p, [kind |-> "noResponse", error |-> TransportError(code)])

\* The request's timeout, when it has one, expires before any response
TimeoutFires(p) ==
    /\ pc[p] = "await"
    /\ req[p].timeout > 0
    /\ Settle(p, [kind |-> "noResponse", error |-> TransportError("ECONNABORTED")])

\* The caller takes the result; the call's locals are gone
Finished(p) ==
    /\ pc[p] = "done"
    /\ pc' = [pc EXCEPT ![p] = "idle"]
    /\ call' = [call EXCEPT ![p] = NoCall]
    /\ result' = [result EXCEPT ![p] = NoResult]
    /\ response' = [response EXCEPT ![p] = NoResponse]
    /\ sent' = [sent EXCEPT ![p] = <<>>]
    /\ work' = [work EXCEPT ![p] = NoWork]
    /\ UNCHANGED <<configFile, cachedConfig, client, req, created, loaded, reread,
                   helperVars, timeVars, remote>>

\* No function of the library is being evaluated
NoLib == [fn |-> "none"]

\* api.js:7, utils.js:135 and the callers before their first call
ClientInit ==
    /\ cachedConfig = Null
    /\ client = Null
    /\ pc = [p \in Callers |-> "idle"]
    /\ call = [p \in Callers |-> NoCall]
    /\ req = [p \in Callers |-> NoReq]
    /\ work = [p \in Callers |-> NoWork]
    /\ result = [p \in Callers |-> NoResult]
    /\ response = [p \in Callers |-> NoResponse]
    /\ sent = [p \in Callers |-> <<>>]
    /\ created = 0
    /\ loaded = FALSE
    /\ reread = FALSE

\* helpers.js:7-9
HelperInit ==
    /\ verboseMode = Bool(FALSE)
    /\ debugMode = Bool(FALSE)
    /\ noColorMode = Bool(FALSE)
    /\ chalkLevel \in {0, 3}

\* highest rate limit set, in milliseconds
MaxRate == 2

\* Date.now() at the start: later than any rate limit after the epoch
StartTime == MaxRate + 1

NoPage == [t |-> "none"]

\* helpers.js:10, 52; no rateLimit() call yet, an empty cache directory
TimeInit ==
    /\ now = StartTime
    /\ rateLimitMs = 0
    /\ lastRequestTime = 0
    /\ limiter = [p \in Callers |-> [pc |-> "idle"]]
    /\ completions = <<>>
    /\ cacheDir = << >>

Init ==
    /\ configFile \in ConfigFiles
    /\ ClientInit
    /\ HelperInit
    /\ TimeInit
    /\ remote = NoPage
    /\ lib = NoLib

\* One caller, one operation at a time, every input
CallOne == pc["c1"] = "idle" /\ \E c \in Calls : Call("c1", c)
RespondOne == pc["c1"] = "await" /\ \E o \in Responses(req["c1"]) : Respond("c1", o)
DisconnectOne == \E code \in FailureCodes : Disconnect("c1", code)
TimeoutOne == TimeoutFires("c1")
FinishedOne == Finished("c1")

Next == CallOne \/ RespondOne \/ DisconnectOne \/ TimeoutOne \/ FinishedOne

Spec == Init /\ [][Next]_vars

\* Two callers whose operations overlap
CallPar == \E p \in Callers : \E c \in ParCalls : Call(p, c)
RespondPar == \E p \in Callers :
                  pc[p] = "await" /\ \E o \in ParResponses(req[p]) : Respond(p, o)
DisconnectPar == \E p \in Callers : Disconnect(p, "ECONNREFUSED")
TimeoutPar == \E p \in Callers : TimeoutFires(p)
FinishedPar == \E p \in Callers : Finished(p)

ParNext == CallPar \/ RespondPar \/ DisconnectPar \/ TimeoutPar \/ FinishedPar

ParSpec == Init /\ [][ParNext]_vars

-----------------------------------------------------------------------------
(* The synchronous functions, each evaluated on inputs drawn at the start *)

\* longest string handed to the sanitizer and the validators
MaxStr == 3

LibCall(fn, arg) == [fn |-> fn, arg |-> arg, done |-> FALSE]

\* The function named by lib runs to completion and leaves its value
Evaluate(fn, r) ==
    /\ lib.fn = fn
    /\ ~lib.done
    /\ lib' = [fn |-> fn, arg |-> lib.arg, done |-> TRUE, out |-> r]
    /\ UNCHANGED <<configFile, cachedConfig, client, pc, call, req, work, result,
                   response, sent, created, loaded, reread,
                   verboseMode, debugMode, noColorMode, chalkLevel, timeVars, remote>>

StringsOver(alphabet, n) == UNION {[1..k -> alphabet] : k \in 0..n}

\* the five characters the sanitizer escapes, and one it leaves alone
SanitizeChars == {"\\", "\"", "\n", "\r", "\t", "a"}

SanitizeInputs ==
    {Str(s) : s \in StringsOver(SanitizeChars, MaxStr)}
        \cup {Null, Undefined, Num(12), Bool(TRUE)}

\* white space, signs, digits (with a leading zero) and a letter
IdChars == {" ", "-", "+", "0", "1", "2", "a"}

IdInputs ==
    {Str(s) : s \in StringsOver(IdChars, MaxStr)}
        \cup {Num(n) : n \in -2..12} \cup {NaN, Undefined, Null}

PathInputs ==
    {Str(s) : s \in StringsOver({"/", "d"} \cup InvalidPathChars, MaxStr)}
        \cup {Undefined, Null, Num(0), Num(5), Bool(TRUE)}

\* longest text handed to the line functions
MaxText == 3

\* s.split(ch) for a one-character separator: always at least one piece
RECURSIVE split(_, _)
split(s, ch) ==
    IF \A i \in 1..Len(s) : s[i] # ch THEN <<s>>
    ELSE LET k == CHOOSE i \in 1..Len(s) : s[i] = ch /\ \A j \in 1..(i - 1) : s[j] # ch
         IN <<SubSeq(s, 1, k - 1)>> \o split(SubSeq(s, k + 1, Len(s)), ch)

\* the for loop of diffStrings from index i on; pushed is `result` so far
RECURSIVE diffLoop(_, _, _, _)
diffLoop(lines1, lines2, i, pushed) ==
    LET maxLen == IF Len(lines1) > Len(lines2) THEN Len(lines1) ELSE Len(lines2)
        Entry(type, content) == [type |-> type, lineNum |-> i + 1, content |-> content]
    IN IF ~(i < maxLen) THEN pushed
       ELSE IF i >= Len(lines1)
       THEN diffLoop(lines1, lines2, i + 1, Append(pushed, Entry("add", lines2[i + 1])))
       ELSE IF i >= Len(lines2)
       THEN diffLoop(lines1, lines2, i + 1, Append(pushed, Entry("remove", lines1[i + 1])))
       ELSE IF lines1[i + 1] # lines2[i + 1]
       THEN diffLoop(lines1, lines2, i + 1,
                     Append(Append(pushed, Entry("remove", lines1[i + 1])),
                            Entry("add", lines2[i + 1])))
       ELSE diffLoop(lines1, lines2, i + 1, Append(pushed, Entry("unchanged", lines1[i + 1])))

\* diffStrings numbering the lines from 0
diffStringsZeroBased(str1, str2) ==
    LET r == diffLoop(split(str1, "\n"), split(str2, "\n"), 0, <<>>)
    IN [k \in 1..Len(r) |-> [r[k] EXCEPT !.lineNum = @ - 1]]

diffStrings(str1, str2) == diffLoop(split(str1, "\n"), split(str2, "\n"), 0, <<>>)

Texts == StringsOver({"a", "b", "\n"}, MaxText)

\* helpers.js:412  line.length > 120
LineLimit == 120

\* s.length of a markdown text.  Its token "W" stands for a run of 121
\* letters w and "H" for the four letters http; every other token is one
\* character.
RECURSIVE length(_)
length(s) ==
    LET Width(c) == CASE c = "W" -> 121 [] c = "H" -> 4 [] OTHER -> 1
    IN IF s = <<>> THEN 0 ELSE Width(Head(s)) + length(Tail(s))

\* what \s matches
IsSpace(c) == c \in {" ", "\t", "\n", "\r"}

\* s.trim()
RECURSIVE trim(_)
trim(s) ==
    IF s # <<>> /\ IsSpace(Head(s)) THEN trim(Tail(s))
    ELSE IF s # <<>> /\ IsSpace(s[Len(s)]) THEN trim(SubSeq(s, 1, Len(s) - 1))
    ELSE s

\* The issues of lintMarkdown in the order they are pushed: the six line
\* rules for each line in turn, then the two rules on the whole document
lintIssues(content) ==
    LET lines == split(content, "\n")
        Issue(line, type, rule, message) ==
            [line |-> line, type |-> type, rule |-> rule, message |-> message]
        RECURSIVE Flatten(_)
        Flatten(ss) == IF ss = <<>> THEN <<>> ELSE Head(ss) \o Flatten(Tail(ss))
        \* the number of leading # of a line
        Hashes(l) == CHOOSE k \in 0..Len(l) :
                         /\ \A i \in 1..k : l[i] = "#"
                         /\ k < Len(l) => l[k + 1] # "#"
        \* /\s+$/
        TrailingSpace(l) == l # <<>> /\ IsSpace(l[Len(l)])
        \* /^#+[^#\s]/
        HeadingNoSpace(l) == /\ Hashes(l) >= 1
                             /\ Hashes(l) < Len(l)
                             /\ ~IsSpace(l[Hashes(l) + 1])
        \* /\[[^\]]*\]\([^)]*$/
        UnclosedLink(l) ==
            \E i \in 1..Len(l) : \E j \in (i + 1)..(Len(l) - 1) :
                /\ l[i] = "["
                /\ \A k \in (i + 1)..(j - 1) : l[k] # "]"
                /\ l[j] = "]"
                /\ l[j + 1] = "("
                /\ \A k \in (j + 2)..Len(l) : l[k] # ")"
        \* /^#{1,6}\s/
        IsHeading(l) == /\ Hashes(l) \in 1..6
                        /\ Hashes(l) < Len(l)
                        /\ IsSpace(l[Hashes(l) + 1])
        LineIssues(idx) ==
            LET line == lines[idx + 1]
                lineNum == idx + 1
            IN (IF TrailingSpace(line)
                THEN <<Issue(lineNum, "warning", "no-trailing-spaces",
                             <<"Trailing whitespace">>)>> ELSE <<>>)
               \o (IF idx > 0 /\ line = <<>> /\ lines[idx] = <<>>
                   THEN <<Issue(lineNum, "warning", "no-multiple-blanks",
                                <<"Multiple consecutive blank lines">>)>> ELSE <<>>)
               \o (IF HeadingNoSpace(line)
                   THEN <<Issue(lineNum, "error", "heading-space",
                                <<"Missing space after heading markers">>)>> ELSE <<>>)
               \o (IF length(line) > LineLimit /\ \A i \in 1..Len(line) : line[i] # "H"
                   THEN <<Issue(lineNum, "warning", "line-length",
                                <<"Line too long (">> \o NatStr(length(line))
                                    \o <<" > 120 characters)">>)>> ELSE <<>>)
               \o (IF \E i \in 1..Len(line) : line[i] = "\t"
                   THEN <<Issue(lineNum, "warning", "no-tabs",
                                <<"Tab character found (prefer spaces)">>)>> ELSE <<>>)
               \o (IF UnclosedLink(line)
                   THEN <<Issue(lineNum, "error", "valid-link",
                                <<"Unclosed link syntax">>)>> ELSE <<>>)
        headings == SelectSeq(lines, IsHeading)
        nonEmptyLines == SelectSeq(lines, LAMBDA l : Len(trim(l)) > 0)
    IN Flatten([idx1 \in 1..Len(lines) |-> LineIssues(idx1 - 1)])
       \o (IF Len(headings) > 0 /\ Hashes(headings[1]) # 1
           THEN <<Issue(1, "warning", "first-heading-h1",
                        <<"First heading should be H1">>)>> ELSE <<>>)
       \o (IF Len(nonEmptyLines) = 0
           THEN <<Issue(1, "error", "no-empty", <<"Document is empty">>)>> ELSE <<>>)

\* lintMarkdown reporting valid only when there is no issue at all
lintMarkdownValidIfNoIssue(content) ==
    LET issues == lintIssues(content)
    IN [valid |-> Len(issues) = 0,
        errors |-> SelectSeq(issues, LAMBDA i : i.type = "error"),
        warnings |-> SelectSeq(issues, LAMBDA i : i.type = "warning"),
        all |-> issues]

lintMarkdown(content) ==
    LET issues == lintIssues(content)
    IN [valid |-> Len(SelectSeq(issues, LAMBDA i : i.type = "error")) = 0,
        errors |-> SelectSeq(issues, LAMBDA i : i.type = "error"),
        warnings |-> SelectSeq(issues, LAMBDA i : i.type = "warning"),
        all |-> issues]

MarkdownTexts == StringsOver({" ", "\t", "\n", "#", "a", "[", "]", "(", "W", "H"}, MaxText)

\* most words in a text handed to getWords
MaxWords == 2

\* getWords of the similarity tests: lower case, characters that are neither
\* word characters nor white space removed, split on runs of white space,
\* words of more than three characters kept
getWords(text) ==
    LET lower == toLowerCase(text)
        IsWordChar(c) == c \in {"a", "b", "A", "B", "_", "0"}
        kept == SelectSeq(lower, LAMBDA c : IsWordChar(c) \/ IsSpace(c))
        \* s.split(/\s+/)
        RECURSIVE splitSpaces(_)
        splitSpaces(s) ==
            IF \A i \in 1..Len(s) : ~IsSpace(s[i]) THEN <<s>>
            ELSE LET k == CHOOSE i \in 1..Len(s) :
                              IsSpace(s[i]) /\ \A j \in 1..(i - 1) : ~IsSpace(s[j])
                     m == CHOOSE i \in k..Len(s) :
                              /\ \A j \in k..i : IsSpace(s[j])
                              /\ i < Len(s) => ~IsSpace(s[i + 1])
                 IN <<SubSeq(s, 1, k - 1)>> \o splitSpaces(SubSeq(s, m + 1, Len(s)))
    IN SelectSeq(splitSpaces(kept), LAMBDA w : Len(w) > 3)

\* a / b for integers a >= 0 and b >= 0: the quotient as a fraction, NaN for 0 / 0
Divide(a, b) ==
    IF b = 0 THEN (IF a = 0 THEN NaN ELSE [t |-> "Infinity"])
    ELSE [t |-> "ratio", num |-> a, den |-> b]

\* similarity of the similarity tests
similarity(words1, words2) ==
    LET set1 == {words1[i] : i \in 1..Len(words1)}
        set2 == {words2[i] : i \in 1..Len(words2)}
        intersection == {w \in set1 : w \in set2}
        union == set1 \cup set2
    IN Divide(Cardinality(intersection), Cardinality(union))

\* texts of up to n words, a space between two words; the words have
\* capitals, punctuation and one is too short to count
RECURSIVE TextsOfWords(_)
TextsOfWords(n) ==
    LET Vocabulary == {<<"A", "b", "b", "a">>, <<"a", "b", "b", "a">>, <<"a", "b">>,
                       <<"b", "a", "a", "b", ",">>}
    IN IF n = 0 THEN {<<>>}
       ELSE TextsOfWords(n - 1)
            \cup Vocabulary
            \cup {t \o <<" ">> \o w : t \in TextsOfWords(n - 1) \ {<<>>}, w \in Vocabulary}

\* most items handed to renderTree
MaxItems == 2

\* renderTree(items) with the default accessors.  A path is a sequence of
\* tokens, "/" the separator; "+-- ", "|-- " and "|   " stand for the
\* box-drawing connectors, "folder" and "page" for the two icons, and the
\* tokens around a coloured text for the codes chalk puts there.
renderTree(items) ==
    LET Parts(item) == SelectSeq(split(item.path.s, "/"), LAMBDA q : q # <<>>)
        chalk(colour, txt) ==
            IF chalkLevel = 0 THEN txt ELSE <<colour>> \o txt \o <<"reset">>
        \* the directories made while item k is placed, added to dirs in the
        \* order in which `current.children[part] = ...` creates them
        RECURSIVE Place(_, _, _)
        Place(dirs, parts, i) ==
            IF i > Len(parts) THEN dirs
            ELSE LET d == SubSeq(parts, 1, i)
                 IN Place(IF \E k \in 1..Len(dirs) : dirs[k] = d THEN dirs
                          ELSE Append(dirs, d),
                          parts, i + 1)
        RECURSIVE Build(_, _)
        Build(dirs, k) ==
            IF k > Len(items) THEN dirs ELSE Build(Place(dirs, Parts(items[k]), 1), k + 1)
        allDirs == Build(<<>>, 1)
        RECURSIVE Flatten(_)
        Flatten(ss) == IF ss = <<>> THEN <<>> ELSE Head(ss) \o Flatten(Tail(ss))
        RECURSIVE renderNode(_, _, _, _)
        renderNode(node, prefix, isLast, name) ==
            LET children == SelectSeq(allDirs, LAMBDA d :
                                /\ Len(d) = Len(node) + 1
                                /\ SubSeq(d, 1, Len(node)) = node)
                nodeItems == SelectSeq(items, LAMBDA it : Parts(it) = node)
                dirIcon == IF Truthy(noColorMode) THEN <<"[D]">>
                           ELSE chalk("blue", <<"folder">>)
                dirLine == IF name # <<>>
                           THEN <<prefix \o <<IF isLast THEN "+-- " ELSE "|-- ">>
                                     \o dirIcon \o <<" ">> \o name \o <<"/">> >>
                           ELSE <<>>
                newPrefix == prefix \o (IF name # <<>>
                                        THEN <<IF isLast THEN "    " ELSE "|   ">>
                                        ELSE <<>>)
                ItemLine(idx) ==
                    LET item == nodeItems[idx + 1]
                        isLastItem == idx = Len(nodeItems) - 1 /\ Len(children) = 0
                        pageIcon == IF Truthy(noColorMode) THEN <<"[P]">>
                                    ELSE chalk("green", <<"page">>)
                        label == StringOf(OrElse(item.title, item.path))
                        idText == <<"(">> \o StringOf(item.id) \o <<")">>
                        idStr == IF Truthy(noColorMode) THEN idText
                                 ELSE chalk("gray", idText)
                    IN newPrefix \o <<IF isLastItem THEN "+-- " ELSE "|-- ">>
                           \o pageIcon \o <<" ">> \o label \o <<" ">> \o idStr
            IN dirLine
               \o [i \in 1..Len(nodeItems) |-> ItemLine(i - 1)]
               \o Flatten([i \in 1..Len(children) |->
                              renderNode(children[i], newPrefix, i - 1 = Len(children) - 1,
                                         children[i][Len(children[i])])])
        \* lines.join("\n")
        RECURSIVE join(_)
        join(ls) == IF ls = <<>> THEN <<>>
                    ELSE IF Len(ls) = 1 THEN ls[1]
                    ELSE ls[1] \o <<"\n">> \o join(Tail(ls))
    IN IF \E k \in 1..Len(items) : \E i \in 1..Len(Parts(items[k])) :
              Parts(items[k])[i] \in PrototypeKeys
       THEN Fail([NewError(<<"Cannot read properties of undefined">>, "runtime")
                     EXCEPT !.name = "TypeError"])
       ELSE Ok(join(renderNode(<<>>, <<>>, TRUE, <<>>)))

TreeItem(id, path, title) == [t |-> "object", id |-> Num(id), path |-> Str(path), title |-> title]

\* pages as the tree command gets them: nested paths, a stray slash, an
\* empty path, an empty title, a segment named like an inherited property
TreeItems ==
    {TreeItem(1, <<"d">>, Str(<<"T">>)),
     TreeItem(2, <<"d", "/", "e">>, Str(<<>>)),
     TreeItem(3, <<"/", "e", "/">>, Str(<<"U">>)),
     TreeItem(4, <<>>, Str(<<"V">>)),
     TreeItem(5, <<"d", "/", "constructor">>, Str(<<"W">>))}

\* most lines of a diff handed to formatDiff
MaxDiff == 5

\* helpers.js:293  contextLines = 3
DefaultContext == 3

\* the for loop of formatDiff from index i on; pushed is `lines` so far
RECURSIVE formatLoop(_, _, _, _, _)
formatLoop(diff, contextLines, i, pushed, lastPrintedLine) ==
    IF ~(i < Len(diff)) THEN pushed
    ELSE LET item == diff[i + 1]
             from == IF i - contextLines > 0 THEN i - contextLines ELSE 0
             to == IF i + contextLines + 1 < Len(diff) THEN i + contextLines + 1
                   ELSE Len(diff)
             nearChange == \E k \in (from + 1)..to : diff[k].type # "unchanged"
             paint(colour, txt) ==
                 IF Truthy(noColorMode) \/ chalkLevel = 0 THEN txt
                 ELSE <<colour>> \o txt \o <<"reset">>
             digits == NatStr(item.lineNum)
             lineNum == [k \in 1..(4 - Len(digits)) |-> " "] \o digits
             text(mark) == <<mark>> \o lineNum \o <<" | ">> \o item.content
             separator == IF item.lineNum > lastPrintedLine + 1 /\ lastPrintedLine > 0
                          THEN <<paint("gray", <<"...">>)>>
                          ELSE <<>>
             line == CASE item.type = "add" -> paint("green", text("+ "))
                       [] item.type = "remove" -> paint("red", text("- "))
                       [] OTHER -> paint("gray", text("  "))
         IN IF item.type = "unchanged" /\ ~nearChange
            THEN formatLoop(diff, contextLines, i + 1, pushed, lastPrintedLine)
            ELSE formatLoop(diff, contextLines, i + 1,
                            pushed \o separator \o <<line>>, item.lineNum)

\* formatDiff that prints no separator
formatDiffNoSeparator(diff, contextLines) ==
    LET lines == SelectSeq(formatLoop(diff, contextLines, 0, <<>>, -contextLines - 1),
                           LAMBDA l : \A k \in 1..Len(l) : l[k] # "...")
        RECURSIVE join(_)
        join(ss) == IF ss = <<>> THEN <<>>
                    ELSE IF Len(ss) = 1 THEN ss[1]
                    ELSE ss[1] \o <<"\n">> \o join(Tail(ss))
    IN join(lines)

formatDiff(diff, contextLines) ==
    LET lines == formatLoop(diff, contextLines, 0, <<>>, -contextLines - 1)
        RECURSIVE join(_)
        join(ss) == IF ss = <<>> THEN <<>>
                    ELSE IF Len(ss) = 1 THEN ss[1]
                    ELSE ss[1] \o <<"\n">> \o join(Tail(ss))
    IN join(lines)

\* diffs numbered as diffStrings numbers them: per line an unchanged entry
\* ("u"), an added one ("a"), a removed one ("r"), or a removed and an added
\* one for a changed line ("c")
Diffs ==
    LET Entry(type, n, content) == [type |-> type, lineNum |-> n, content |-> content]
        EntriesOf(ch, n) ==
            CASE ch = "u" -> <<Entry("unchanged", n, <<"a">>)>>
              [] ch = "a" -> <<Entry("add", n, <<"b">>)>>
              [] ch = "r" -> <<Entry("remove", n, <<"a">>)>>
              [] OTHER -> <<Entry("remove", n, <<"a">>), Entry("add", n, <<"b">>)>>
        DiffOf(shape) ==
            LET D[n \in 0..Len(shape)] ==
                    IF n = 0 THEN <<>> ELSE D[n - 1] \o EntriesOf(shape[n], n)
            IN D[Len(shape)]
    IN {DiffOf(shape) : shape \in StringsOver({"u", "a", "r", "c"}, MaxDiff)}

LibInit ==
    /\ configFile = FileAbsent
    /\ ClientInit
    /\ HelperInit
    /\ TimeInit
    /\ remote = NoPage
    /\ \/ \E x \in SanitizeInputs : lib = LibCall("sanitizeString", x)
       \/ \E x \in IdInputs : lib = LibCall("validateId", x)
       \/ \E x \in PathInputs : lib = LibCall("validatePath", x)
       \/ \E x, y \in Texts : lib = LibCall("diffStrings", <<x, y>>)
       \/ \E x \in MarkdownTexts : lib = LibCall("lintMarkdown", x)
       \/ \E x, y \in TextsOfWords(MaxWords) : lib = LibCall("similarity", <<x, y>>)
       \/ \E d \in Diffs, n \in {Undefined, Num(0), Num(1)} :
              lib = LibCall("formatDiff", <<d, n>>)

LibNext ==
    \/ Evaluate("sanitizeString", sanitizeString(lib.arg))
    \/ Evaluate("validateId", validateId(lib.arg))
    \/ Evaluate("validatePath", validatePath(lib.arg))
    \/ Evaluate("diffStrings", diffStrings(lib.arg[1], lib.arg[2]))
    \/ Evaluate("lintMarkdown", lintMarkdown(lib.arg))
    \/ Evaluate("similarity", similarity(getWords(lib.arg[1]), getWords(lib.arg[2])))
    \/ Evaluate("formatDiff",
                formatDiff(lib.arg[1], Default(lib.arg[2], Num(DefaultContext)).n))

LibSpec == LibInit /\ [][LibNext]_vars

-----------------------------------------------------------------------------
(* The module state of helpers.js, its setters, and renderTree, which reads it *)

\* what a caller passes as `enabled`: a flag that is set, cleared or absent
Flags == {Bool(TRUE), Bool(FALSE), Undefined}

ClientIdle == <<configFile, cachedConfig, client, pc, call, req, work, result,
                response, sent, created, loaded, reread, remote>>

setVerbose(enabled) ==
    /\ verboseMode' = enabled
    /\ UNCHANGED <<ClientIdle, debugMode, noColorMode, chalkLevel, lib, timeVars>>

setDebug(enabled) ==
    /\ debugMode' = enabled
    /\ verboseMode' = IF Truthy(enabled) THEN Bool(TRUE) ELSE verboseMode
    /\ UNCHANGED <<ClientIdle, noColorMode, chalkLevel, lib, timeVars>>

setNoColor(enabled) ==
    /\ noColorMode' = enabled
    /\ chalkLevel' = IF Truthy(enabled) THEN 0 ELSE chalkLevel
    /\ UNCHANGED <<ClientIdle, verboseMode, debugMode, lib, timeVars>>

HelperSpecInit ==
    /\ configFile = FileAbsent
    /\ ClientInit
    /\ HelperInit
    /\ TimeInit
    /\ remote = NoPage
    /\ \E l \in UNION {[1..k -> TreeItems] : k \in 0..MaxItems} :
           lib = LibCall("renderTree", l)

HelperNext ==
    \/ \E enabled \in Flags : setVerbose(enabled)
    \/ \E enabled \in Flags : setDebug(enabled)
    \/ \E enabled \in Flags : setNoColor(enabled)
    \/ Evaluate("renderTree", renderTree(lib.arg))

HelperSpec == HelperSpecInit /\ [][HelperNext]_vars

-----------------------------------------------------------------------------
(* The clock and the rate limiter of helpers.js *)

\* how far the clock runs after the start
MaxTime == 4

\* rateLimit() calls that are let return
MaxCalls == 3

\* One millisecond passes
Tick ==
    /\ now < StartTime + MaxTime
    /\ now' = now + 1
    /\ UNCHANGED <<ClientIdle, helperVars, rateLimitMs, lastRequestTime, limiter,
                   completions, cacheDir>>

setRateLimit(ms) ==
    /\ rateLimitMs' = ms
    /\ UNCHANGED <<ClientIdle, helperVars, now, lastRequestTime, limiter,
                   completions, cacheDir>>

\* A rateLimit() call of p that has returned: when it was called, when it
\* returned, and how many calls had returned before it was called
Completion(p, from, before) ==
    [by |-> p, from |-> from, at |-> now, before |-> before]

\* p calls rateLimit(): it returns at once, or reaches `await sleep(delay)`
rateLimit(p) ==
    /\ limiter[p].pc = "idle"
    /\ IF rateLimitMs <= 0
       THEN /\ completions' = Append(completions, Completion(p, now, Len(completions)))
            /\ UNCHANGED <<lastRequestTime, limiter>>
       ELSE LET elapsed == now - lastRequestTime
            IN IF elapsed < rateLimitMs
               THEN /\ limiter' = [limiter EXCEPT ![p] =
                                      [pc |-> "sleep", from |-> now,
                                       before |-> Len(completions),
                                       until |-> now + (rateLimitMs - elapsed)]]
                    /\ UNCHANGED <<lastRequestTime, completions>>
               ELSE /\ lastRequestTime' = now
                    /\ completions' =
                           Append(completions, Completion(p, now, Len(completions)))
                    /\ UNCHANGED limiter
    /\ UNCHANGED <<ClientIdle, helperVars, now, rateLimitMs, cacheDir>>

\* The timer of sleep(delay) has fired: the call of p goes on after its await
rateLimitResumed(p) ==
    /\ limiter[p].pc = "sleep"
    /\ now >= limiter[p].until
    /\ lastRequestTime' = now
    /\ limiter' = [limiter EXCEPT ![p] = [pc |-> "idle"]]
    /\ completions' =
           Append(completions, Completion(p, limiter[p].from, limiter[p].before))
    /\ UNCHANGED <<ClientIdle, helperVars, now, rateLimitMs, cacheDir>>

\* The rate limit is set at start-up, before the first call
LimiterNext ==
    \/ Tick
    \/ \E ms \in -1..MaxRate :
           /\ completions = <<>>
           /\ \A p \in Callers : limiter[p].pc = "idle"
           /\ setRateLimit(ms)
    \/ \E p \in Callers :
           /\ Len(completions) + Cardinality({q \in Callers : limiter[q].pc = "sleep"})
                  < MaxCalls
           /\ rateLimit(p)
    \/ \E p \in Callers : rateLimitResumed(p)

LimiterInit == Init /\ configFile = FileAbsent

LimiterSpec == LimiterInit /\ [][LimiterNext]_vars

-----------------------------------------------------------------------------
(* The cache of helpers.js: one JSON file per key in ~/.cache/wikijs-cli *)

\* helpers.js:76  CACHE_TTL = 5 * 60 * 1000
CACHE_TTL == 300000

CacheKeys == {"k"}

\* a file that JSON.parse rejects
Garbage == [t |-> "garbage"]

\* d milliseconds pass: single ones during the first MaxTime milliseconds
\* and during the MaxTime that follow the default lifetime, or the default
\* lifetime at once
Elapse(d) ==
    /\ now + d <= StartTime + CACHE_TTL + MaxTime
    /\ d = 1 => (now - StartTime) % CACHE_TTL < MaxTime
    /\ now' = now + d
    /\ UNCHANGED <<ClientIdle, helperVars, rateLimitMs, lastRequestTime, limiter,
                   completions, cacheDir>>

\* setCache(key, value, ttl): the file of the key is written.  What is
\* written is JSON: a value that is undefined is left out of it and reads
\* back as undefined, numbers and strings read back as they were
setCache(key, value, ttl) ==
    /\ cacheDir' = (key :> [timestamp |-> Num(now),
                            ttl |-> Default(ttl, Num(CACHE_TTL)),
                            value |-> value]) @@ cacheDir
    /\ UNCHANGED <<ClientIdle, helperVars, now, rateLimitMs, lastRequestTime, limiter,
                   completions>>

\* getCached(key): what it returns is left in lib; every throw inside it is
\* caught and turned into null
getCached(key) ==
    /\ lib' = [fn |-> "getCached", arg |-> key, done |-> TRUE,
               out |-> IF key \notin DOMAIN cacheDir THEN Ok(Null)
                       ELSE LET data == cacheDir[key]
                            IN IF data = Garbage THEN Ok(Null)
                               ELSE IF now - data.timestamp.n
                                          > OrElse(data.ttl, Num(CACHE_TTL)).n
                               THEN Ok(Null)
                               ELSE Ok(data.value)]
    /\ UNCHANGED <<ClientIdle, verboseMode, debugMode, noColorMode, chalkLevel, timeVars>>

\* clearCache(), from its `await import` on: the directory is removed
clearCache ==
    /\ cacheDir' = << >>
    /\ UNCHANGED <<ClientIdle, helperVars, now, rateLimitMs, lastRequestTime, limiter,
                   completions>>

CacheInit ==
    /\ configFile = FileAbsent
    /\ ClientInit
    /\ HelperInit
    /\ now = StartTime
    /\ rateLimitMs = 0
    /\ lastRequestTime = 0
    /\ limiter = [p \in Callers |-> [pc |-> "idle"]]
    /\ completions = <<>>
    /\ cacheDir \in {<< >>} \cup {(k :> Garbage) : k \in CacheKeys}
    /\ lib = NoLib
    /\ remote = NoPage

CacheNext ==
    \/ \E d \in {1, CACHE_TTL} : Elapse(d)
    \/ \E key \in CacheKeys, value \in {Str(<<"v">>), Undefined},
          ttl \in {Undefined, Num(0), Num(2)} : setCache(key, value, ttl)
    \/ \E key \in CacheKeys : getCached(key)
    \/ clearCache

CacheSpec == CacheInit /\ [][CacheNext]_vars

-----------------------------------------------------------------------------
(* A wiki server that holds one page, and two callers that update it *)

\* what the fields of the stored page can hold
StoredTexts == {Str(<<>>), Str(<<"T">>), Str(<<"N">>), Str(<<"d">>), Str(<<"e">>),
                Str(<<"c">>)}
StoredTags == {Arr(<<>>), Arr(<<Str(<<"t">>)>>)}

\* The value that the literal txt of a mutation denotes
Literal(txt, values) == CHOOSE v \in values : JSONstringify(v) = txt

\* pages.update(...) applied to the page the server holds
Updated(page, args) ==
    [page EXCEPT !.content = Literal(args.content, StoredTexts),
                 !.description = Literal(args.description, StoredTexts),
                 !.isPublished = Literal(args.isPublished, {Bool(TRUE), Bool(FALSE)}),
                 !.tags = LET g == Literal(args.tags, StoredTags).a
                          IN Arr([i \in 1..Len(g) |-> TagObj(g[i].s)]),
                 !.title = Literal(args.title, StoredTexts)]

\* The entry of pages.list for a page: the fields the list query of
\* listPages names, tags as strings; authorName is not among them
Stub(page) ==
    [t |-> "object", id |-> page.id, locale |-> Str(<<"en">>),
     tags |-> IF Truthy(page.tags) THEN FlattenTags(page.tags) ELSE page.tags,
     authorName |-> Undefined]

\* The server answers the request of p: a lookup with the page it holds, the
\* list query with the stub of that page, a mutation by applying it; the
\* code of p after its await runs
Serve(p) ==
    /\ pc[p] = "await"
    /\ LET q == req[p].query
           data == IF q.kind = "mutation"
                   THEN MutationPayload(ResponseResult(Bool(TRUE), Undefined))
                   ELSE IF q.field = "pages.list" THEN Arr(<<Stub(remote)>>)
                   ELSE remote
           o == [kind |-> "http2xx", body |-> Envelope(Undefined, data)]
       IN /\ remote' = IF q.kind = "mutation" THEN Updated(remote, q.args) ELSE remote
          /\ response' = [response EXCEPT ![p] = o]
          /\ Apply(p, Settled(call[p], work[p], Len(sent[p]), o, Env))
    /\ UNCHANGED <<configFile, call, helperVars, timeVars>>

\* listPages({author: "aL"}), updatePage(2, {title: "N"}) and
\* updatePage(2, {description: "e"})
RemoteCalls ==
    {CallOf("listPages", Undefined, Undefined, Undefined,
            [tag |-> Undefined, author |-> Str(<<"a", "L">>), locale |-> Undefined,
             limit |-> Undefined]),
     CallOf("updatePage", Num(2), Undefined, Undefined,
            [NoOptions EXCEPT !.title = Str(<<"N">>)]),
     CallOf("updatePage", Num(2), Undefined, Undefined,
            [NoOptions EXCEPT !.description = Str(<<"e">>)])}

RemoteInit ==
    /\ configFile = FileOf(WikiUrl, Token)
    /\ ClientInit
    /\ HelperInit
    /\ TimeInit
    /\ lib = NoLib
    /\ remote = [authorName |-> Str(<<"A", "l">>)]
                    @@ PageOf(Str(<<"d">>), Arr(<<TagObj(<<"t">>)>>))

RemoteNext ==
    \/ \E p \in Callers : \E c \in RemoteCalls : Call(p, c)
    \/ \E p \in Callers : Serve(p)
    \/ \E p \in Callers : Disconnect(p, "ECONNREFUSED")
    \/ \E p \in Callers : Finished(p)

RemoteSpec == RemoteInit /\ [][RemoteNext]_vars

-----------------------------------------------------------------------------
(* Vocabulary of the properties *)

Thrown(p) == pc[p] = "done" /\ result[p].kind = "throw"
Returned(p) == pc[p] = "done" /\ result[p].kind = "return"

ThrewGraphQLError(p) == Thrown(p) /\ result[p].err.name = "GraphQLError"

\* The `errors` field of the envelope an outcome carries, if it carries one
EnvelopeErrors(o) ==
    IF o.kind \in {"http2xx", "httpError"} /\ o.body.t = "object"
    THEN o.body.errors ELSE Undefined

HasNonEmptyErrors(o) ==
    EnvelopeErrors(o).t = "array" /\ Len(EnvelopeErrors(o).a) > 0

MutationOps == {"createPage", "updatePage", "movePage", "deletePage", "deleteAsset",
                "revertPage"}

DefaultMessage(op) ==
    CASE op = "createPage" -> <<"Failed to create page">>
      [] op = "updatePage" -> <<"Failed to update page">>
      [] op = "movePage" -> <<"Failed to move page">>
      [] op = "deletePage" -> <<"Failed to delete page">>
      [] op = "deleteAsset" -> <<"Failed to delete asset">>
      [] op = "revertPage" -> <<"Failed to revert page">>

\* The operation of p is done and the last thing that happened to it is
\* that the remote answered its mutation with an envelope free of errors
MutationAnswered(p) ==
    /\ pc[p] = "done"
    /\ call[p].op \in MutationOps
    /\ Len(sent[p]) = (IF call[p].op = "updatePage" THEN 2 ELSE 1)
    /\ response[p].kind = "http2xx"
    /\ ~HasNonEmptyErrors(response[p])

RemoteResult(p) == Get(Get(response[p].body, "data"), "responseResult")
RemoteSucceeded(p) == Get(RemoteResult(p), "succeeded") = Bool(TRUE)
RemoteMessage(p) == Get(RemoteResult(p), "message")

\* The validated arguments of call c, and whether one of them is rejected
InvalidInput(c) ==
    CASE c.op = "getPage" -> c.id.t = "number" /\ ~validateId(c.id).ok
      [] c.op = "createPage" -> ~validatePath(c.path).ok
      [] c.op \in {"updatePage", "deletePage", "deleteAsset", "getPageVersions"} ->
            ~validateId(c.id).ok
      [] c.op = "movePage" -> ~validateId(c.id).ok \/ ~validatePath(c.path).ok
      [] c.op = "revertPage" -> ~validateId(c.id).ok \/ ~validateId(c.id2).ok
      [] OTHER -> FALSE

\* Operations whose first statement is loadConfig()
LoadsConfigFirst == {"getPage", "createPage", "movePage"}

FileIsValid == configFile.exists /\ configFile.json /\ Truthy(configFile.url)
               /\ Truthy(configFile.apiToken)

FileLacksRequired == configFile.exists /\ configFile.json
                     /\ (~Truthy(configFile.url) \/ ~Truthy(configFile.apiToken))

-----------------------------------------------------------------------------
(* C1 *)

\* C1: an operation that went through graphql ends in a GraphQLError if and
\* only if the envelope of the response that ended it holds a non-empty
\* errors sequence, for successful HTTP responses and HTTP error responses
\* alike; an absent or empty errors field never gives a GraphQLError.
C1_GraphQLErrorIffNonEmptyErrors ==
    \A p \in Callers :
        (/\ pc[p] = "done"
         /\ call[p].op # "uploadAsset"
         /\ response[p].kind \in {"http2xx", "httpError"})
        => (ThrewGraphQLError(p) <=> HasNonEmptyErrors(response[p]))

-----------------------------------------------------------------------------
(* C2 *)

\* C2 as claimed: a mutation returns only when the remote result says
\* succeeded = true; otherwise it raises an error whose message is the remote
\* message when one is present, and the operation's default when absent.
C2_RemoteMessageWhenPresent ==
    \A p \in Callers :
        /\ (Returned(p) /\ call[p].op \in MutationOps)
              => (MutationAnswered(p) /\ RemoteSucceeded(p))
        /\ (MutationAnswered(p) /\ ~RemoteSucceeded(p))
              => /\ Thrown(p)
                 /\ result[p].err.message =
                       IF RemoteMessage(p).t = "string" THEN RemoteMessage(p).s
                       ELSE DefaultMessage(call[p].op)

\* C2 amended: the raised message is the remote message when one is present
\* and not the empty string, and the operation's default message when the
\* message is absent or empty (or the whole result is absent).
C2_RemoteMessageWhenNonEmpty ==
    \A p \in Callers :
        /\ (Returned(p) /\ call[p].op \in MutationOps)
              => (MutationAnswered(p) /\ RemoteSucceeded(p))
        /\ (MutationAnswered(p) /\ ~RemoteSucceeded(p))
              => /\ Thrown(p)
                 /\ result[p].err.name = "Error"
                 /\ result[p].err.message =
                       IF RemoteMessage(p).t = "string" /\ RemoteMessage(p).s # <<>>
                       THEN RemoteMessage(p).s
                       ELSE DefaultMessage(call[p].op)

\* createPage answered {succeeded: false, message: "Path already exists"}
\* has raised exactly that message
C2_Witness ==
    /\ MutationAnswered("c1")
    /\ call["c1"].op = "createPage"
    /\ RemoteMessage("c1") = Str(<<"Path already exists">>)
    /\ Thrown("c1")
    /\ result["c1"].err.message = <<"Path already exists">>

-----------------------------------------------------------------------------
(* C3 *)

-----------------------------------------------------------------------------
(* C4 *)

UpdateFields == {"content", "title", "description", "tags", "isPublished"}

\* The update mutation of p is in flight (the response variable still holds
\* the answer to the fetch that preceded it)
UpdateMutationInFlight(p) ==
    pc[p] = "await" /\ call[p].op = "updatePage" /\ Len(sent[p]) = 2

\* What the fetch before the mutation returned: the page of the response,
\* its tags flattened to bare strings
FetchedPage(p) ==
    LET page == response[p].body.data
    IN IF page.tags.t = "array"
       THEN [page EXCEPT !.tags = Arr([i \in 1..Len(page.tags.a) |->
                                          page.tags.a[i].tag])]
       ELSE page

\* The text a merged value has in the mutation
FieldText(f, v) == IF f = "isPublished" THEN StringOf(v) ELSE JSONstringify(v)

FetchReturnedPage(p) ==
    /\ response[p].kind = "http2xx"
    /\ ~HasNonEmptyErrors(response[p])
    /\ Truthy(Get(response[p].body, "data"))

\* C4 as claimed: the mutation is sent only after the fetch returned a page,
\* and each field in it is the supplied value when one is supplied, and the
\* value the fetch returned when the field is omitted.
C4_MergeSuppliedElseFetched ==
    \A p \in Callers :
        UpdateMutationInFlight(p)
        => /\ FetchReturnedPage(p)
           /\ sent[p][1].query.field = "pages.single"
           /\ \A f \in UpdateFields :
                 sent[p][2].query.args[f] =
                    FieldText(f, IF call[p].options[f] # Undefined
                                 THEN call[p].options[f]
                                 ELSE FetchedPage(p)[f])

FieldFallback(f) ==
    CASE f = "description" -> Str(<<>>)
      [] f = "tags" -> Arr(<<>>)
      [] OTHER -> Null

\* C4 amended: as claimed, except that an omitted description or tags field
\* for which the fetch returned no value (null) is sent as the empty string,
\* respectively the empty list.
C4_MergeSuppliedElseFetchedElseEmpty ==
    \A p \in Callers :
        UpdateMutationInFlight(p)
        => /\ FetchReturnedPage(p)
           /\ sent[p][1].query.field = "pages.single"
           /\ \A f \in UpdateFields :
                 sent[p][2].query.args[f] =
                    FieldText(f, IF call[p].options[f] # Undefined
                                 THEN call[p].options[f]
                                 ELSE IF FetchedPage(p)[f] = Null
                                 THEN FieldFallback(f)
                                 ELSE FetchedPage(p)[f])

\* An update that supplies the empty string as content and false as
\* isPublished, omits title and tags, and whose fetch returned tags
C4_Witness ==
    /\ UpdateMutationInFlight("c1")
    /\ call["c1"].options.content = Str(<<>>)
    /\ call["c1"].options.isPublished = Bool(FALSE)
    /\ call["c1"].options.title = Undefined
    /\ call["c1"].options.tags = Undefined
    /\ FetchedPage("c1").tags = Arr(<<Str(<<"t">>)>>)
    /\ sent["c1"][2].query.args.content = <<"\"", "\"">>
    /\ sent["c1"][2].query.args.tags = <<"[", "\"", "t", "\"", "]">>

-----------------------------------------------------------------------------
(* C5 *)

\* C5: when a request ends without any response (timeout, refused
\* connection, failed name lookup) the operation is over, what it raised is
\* the transport's own error object, and no request is in flight.
C5_TransportErrorUnchanged ==
    \A p \in Callers :
        response[p].kind = "noResponse"
        => /\ Thrown(p)
           /\ result[p].err = response[p].error
           /\ result[p].err.name # "GraphQLError"
           /\ req[p] = NoReq
           /\ \A i, j \in 1..Len(sent[p]) : i # j => sent[p][i] # sent[p][j]

\* A graphql request timed out and the operation raised the timeout error
C5_Witness ==
    /\ response["c1"].kind = "noResponse"
    /\ response["c1"].error.code = "ECONNABORTED"
    /\ call["c1"].op = "listTags"
    /\ Thrown("c1")
    /\ result["c1"].err.code = "ECONNABORTED"

-----------------------------------------------------------------------------
(* C6 *)

OriginsBeforeConfig(c) ==
    {"config"} \cup (IF InvalidInput(c) THEN {"validation"} ELSE {})
               \cup (IF c.op = "uploadAsset" THEN {"fs"} ELSE {})

\* C6: with a configuration file that lacks url or apiToken, no request is
\* ever sent, and every operation that gets past the checks of its own
\* arguments fails with a configuration error, on the first call and on
\* every later one.
C6_NoRequestWithoutUrlOrToken ==
    FileLacksRequired
    => \A p \in Callers :
          /\ sent[p] = <<>>
          /\ req[p] = NoReq
          /\ pc[p] = "done"
                => /\ Thrown(p)
                   /\ result[p].err.origin \in OriginsBeforeConfig(call[p])

-----------------------------------------------------------------------------
(* C7 *)

\* C7: however the operations of several callers interleave, axios.create
\* runs at most once, the configuration file is not read again once a load
\* has succeeded, and every GraphQL request was sent through the one client.
C7_OneClientOneLoad ==
    /\ created <= 1
    /\ ~reread
    /\ \A p \in Callers : \A i \in 1..Len(sent[p]) :
          sent[p][i].via = "client"
          => /\ Truthy(client)
             /\ sent[p][i].clientId = client.id
             /\ sent[p][i].baseURL = client.baseURL
             /\ sent[p][i].auth = client.auth

\* Two callers started before any client existed and both have a GraphQL
\* request in flight
C7_Witness ==
    /\ pc["c1"] = "await" /\ pc["c2"] = "await"
    /\ req["c1"].via = "client" /\ req["c2"].via = "client"
    /\ Len(sent["c1"]) = 1 /\ Len(sent["c2"]) = 1
    /\ created = 1
    /\ loaded

-----------------------------------------------------------------------------
(* C8 *)

\* What a caller can inspect of an error besides its message text
Structure(err) ==
    [name |-> err.name, code |-> err.code, hasErrors |-> err.errors # Undefined]

FailureClasses == {"validation", "remote", "transport"}

\* C8: two failures of different classes (validation, remote, transport)
\* never look alike to the caller apart from their message text.
C8_ClassesDistinguishable ==
    \A p, q \in Callers :
        (/\ Thrown(p) /\ Thrown(q)
         /\ result[p].err.origin \in FailureClasses
         /\ result[q].err.origin \in FailureClasses
         /\ result[p].err.origin # result[q].err.origin)
        => Structure(result[p].err) # Structure(result[q].err)

-----------------------------------------------------------------------------
(* C9 *)

\* C9: every request in flight, the asset upload included, carries the
\* fixed timeout, so that it ends even if the server never answers.
C9_EveryRequestHasTheTimeout ==
    \A p \in Callers : req[p] # NoReq => req[p].timeout = Timeout

-----------------------------------------------------------------------------
(* C10 *)

\* The messages of entries 1..k joined by "; ", built from the left
RECURSIVE JoinedUpTo(_, _)
JoinedUpTo(es, k) ==
    IF k = 0 THEN <<>>
    ELSE IF k = 1 THEN es[1].message.s
    ELSE JoinedUpTo(es, k - 1) \o <<"; ">> \o es[k].message.s

\* C10: a raised GraphQLError holds the errors sequence of the envelope,
\* same length and order, and its message is the entries' messages joined
\* by "; " in that order.
C10_ErrorsKeptAndJoined ==
    \A p \in Callers :
        ThrewGraphQLError(p)
        => /\ result[p].err.errors = EnvelopeErrors(response[p])
           /\ result[p].err.message =
                 JoinedUpTo(result[p].err.errors.a, Len(result[p].err.errors.a))

\* A GraphQLError raised from two different entries, in their order
C10_Witness ==
    /\ ThrewGraphQLError("c1")
    /\ Len(result["c1"].err.errors.a) = 2
    /\ result["c1"].err.message = <<"a", "; ", "b">>

-----------------------------------------------------------------------------
(* C11 *)

\* The two-character escape of one character, or the character itself
EscapeOf(ch) ==
    CASE ch = "\\" -> <<"\\", "\\">>
      [] ch = "\"" -> <<"\\", "\"">>
      [] ch = "\n" -> <<"\\", "n">>
      [] ch = "\r" -> <<"\\", "r">>
      [] ch = "\t" -> <<"\\", "t">>
      [] OTHER -> <<ch>>

RECURSIVE EscapeEach(_)
EscapeEach(s) == IF s = <<>> THEN <<>> ELSE EscapeOf(Head(s)) \o EscapeEach(Tail(s))

\* number of consecutive backslashes that end just before position i of s
RECURSIVE BackslashesBefore(_, _)
BackslashesBefore(s, i) ==
    IF i > 1 /\ s[i - 1] = "\\" THEN 1 + BackslashesBefore(s, i - 1) ELSE 0

SanitizeDone == lib.fn = "sanitizeString" /\ lib.done

\* C11: sanitizeString gives the empty string for null and undefined and
\* otherwise the character-wise escape of the input's text (each backslash,
\* double quote, newline, carriage return and tab replaced by its
\* two-character escape, every other character kept); a text with none of the
\* five characters comes back unchanged; in the output every double quote
\* follows an odd number of consecutive backslashes and no raw newline,
\* carriage return or tab is left.
C11_SanitizeIsCharacterWiseEscape ==
    SanitizeDone =>
        LET x == lib.arg
            out == lib.out
        IN /\ IsNullish(x) => out = <<>>
           /\ ~IsNullish(x) => out = EscapeEach(StringOf(x))
           /\ (~IsNullish(x) /\ \A i \in 1..Len(StringOf(x)) :
                   StringOf(x)[i] \notin {"\\", "\"", "\n", "\r", "\t"})
                  => out = StringOf(x)
           /\ \A i \in 1..Len(out) :
                  /\ out[i] \notin {"\n", "\r", "\t"}
                  /\ out[i] = "\"" => BackslashesBefore(out, i) % 2 = 1

\* a backslash followed by a double quote has been sanitized
C11_Witness ==
    /\ SanitizeDone
    /\ lib.arg = Str(<<"\\", "\"", "a">>)
    /\ lib.out = <<"\\", "\\", "\\", "\"", "a">>

-----------------------------------------------------------------------------
(* C12 *)

WhiteSpace == {" ", "\t", "\n", "\r"}

\* The digits ds read as the number n: zeros, then n as it is written
Reads(ds, n) ==
    \E z \in 0..(Len(ds) - 1) :
        /\ \A i \in 1..z : ds[i] = "0"
        /\ SubSeq(ds, z + 1, Len(ds)) = NatStr(n)

\* The text s has a numeric prefix: w characters of white space, g signs
\* (at most one), then a longest run of k >= 1 digits
NumericPrefixAt(s, w, g, k) ==
    /\ w + g + k <= Len(s)
    /\ \A i \in 1..w : s[i] \in WhiteSpace
    /\ g = 0 => s[w + 1] \notin WhiteSpace
    /\ g = 1 => s[w + 1] \in {"-", "+"}
    /\ \A i \in 1..k : IsDigit(s[w + g + i])
    /\ w + g + k < Len(s) => ~IsDigit(s[w + g + k + 1])

\* The integer that prefix stands for is n
PrefixReads(s, w, g, k, n) ==
    /\ (n < 0) => (g = 1 /\ s[w + 1] = "-")
    /\ (n > 0) => ~(g = 1 /\ s[w + 1] = "-")
    /\ Reads(SubSeq(s, w + g + 1, w + g + k), IF n < 0 THEN -n ELSE n)

IdDone == lib.fn = "validateId" /\ lib.done

\* C12: validateId returns the integer read from the numeric prefix of its
\* input's text (white space and a sign may come first, anything may follow
\* the digits) when that integer is at least 1, and raises "Invalid ID"
\* when the text has no numeric prefix or the prefix reads as less than 1;
\* every value returned is an integer >= 1.
C12_IdIsNumericPrefixAtLeastOne ==
    IdDone =>
        LET s == StringOf(lib.arg)
            r == lib.out
            Splits == {x \in (0..Len(s)) \X (0..1) \X (1..Len(s)) :
                          NumericPrefixAt(s, x[1], x[2], x[3])}
        IN /\ r.ok => /\ r.val \in Nat /\ r.val >= 1
                       /\ \E x \in Splits : PrefixReads(s, x[1], x[2], x[3], r.val)
           /\ ~r.ok => /\ \A x \in Splits :
                               \/ x[2] = 1 /\ s[x[1] + 1] = "-"
                               \/ \A i \in 1..x[3] : s[x[1] + x[2] + i] = "0"
                        /\ r.err.message = <<"Invalid ID: ">> \o s

\* "12a" has been validated and gave 12
C12_Witness ==
    /\ IdDone
    /\ lib.arg = Str(<<"1", "2", "a">>)
    /\ lib.out = Ok(12)

-----------------------------------------------------------------------------
(* C13 *)

PathDone == lib.fn = "validatePath" /\ lib.done

\* C13: validatePath raises "Path is required" when its input is not a
\* string or is the empty string; otherwise the remainder is the input less
\* one leading "/" when it has one, the call raises "Invalid characters in
\* path" when the remainder holds one of < > : " | ? * and returns the
\* remainder as it is when it holds none.
C13_PathStrippedOnceAndScreened ==
    PathDone =>
        LET x == lib.arg
            r == lib.out
            missing == x.t # "string" \/ x.s = <<>>
        IN /\ missing => ~r.ok /\ r.err.message = <<"Path is required">>
           /\ ~missing =>
                \E rest \in {x.s, Tail(x.s)} :
                    /\ (x.s[1] = "/") <=> (x.s = <<"/">> \o rest)
                    /\ (x.s[1] # "/") <=> (x.s = rest)
                    /\ IF \E i \in 1..Len(rest) : rest[i] \in {"<", ">", ":", "\"", "|", "?", "*"}
                       THEN ~r.ok /\ r.err.message = <<"Invalid characters in path: ">> \o x.s
                       ELSE r = Ok(rest)

\* "//d" has been validated: one slash is gone, one is kept
C13_Witness ==
    /\ PathDone
    /\ lib.arg = Str(<<"/", "/", "d">>)
    /\ lib.out = Ok(<<"/", "d">>)

-----------------------------------------------------------------------------
(* C14 *)

ListReturned(p) == Returned(p) /\ call[p].op = "listPages"

\* What listPages fetched: data.pages.list of the response, [] when absent
Fetched(p) ==
    LET l == Get(response[p].body, "data") IN IF Truthy(l) THEN l.a ELSE <<>>

\* The page passes every filter the call supplies
PassesFilters(pg, opt) ==
    /\ opt.locale # Undefined => pg.locale = opt.locale
    /\ opt.tag # Undefined =>
           pg.tags # Null /\ \E i \in 1..Len(pg.tags.a) : pg.tags.a[i] = opt.tag
    /\ opt.author # Undefined =>
           /\ pg.authorName # Undefined
           /\ \E i \in 1..Len(pg.authorName.s) : \E j \in i..Len(pg.authorName.s) :
                  toLowerCase(SubSeq(pg.authorName.s, i, j)) = toLowerCase(opt.author.s)

\* the positions of the fetched list whose page passes, in increasing order
RECURSIVE Passing(_, _, _)
Passing(l, opt, i) ==
    IF i > Len(l) THEN <<>>
    ELSE (IF PassesFilters(l[i], opt) THEN <<l[i]>> ELSE <<>>) \o Passing(l, opt, i + 1)

LimitOf(opt) == IF opt.limit = Undefined THEN DefaultLimit ELSE opt.limit.n

\* C14: listPages returns exactly the first `limit` elements, in fetched
\* order, of the fetched pages that pass every supplied filter (locale
\* equality, tag membership, case-insensitive substring match of author in
\* the author name), and never more than `limit` elements.
C14_FirstLimitOfFiltered ==
    \A p \in Callers :
        ListReturned(p) =>
            LET opt == call[p].options
                want == Passing(Fetched(p), opt, 1)
                got == result[p].val.a
                k == LimitOf(opt)
            IN /\ Len(got) <= k
               /\ Len(got) = (IF Len(want) < k THEN Len(want) ELSE k)
               /\ got = SubSeq(want, 1, Len(got))

-----------------------------------------------------------------------------
(* C15 *)

\* The positive integer a number stands for, as it is written in a query
IsIdentifier(v) == v.t = "number" /\ v.n >= 1

\* The lookup of getPage came back with a data envelope and no errors
LookupAnswered(p) ==
    /\ call[p].op = "getPage"
    /\ pc[p] = "done"
    /\ Len(sent[p]) = 1
    /\ response[p].kind = "http2xx"
    /\ ~HasNonEmptyErrors(response[p])

PageNotFound(p) ==
    /\ Thrown(p)
    /\ result[p].err.message = <<"Page not found: ">> \o StringOf(call[p].id)

\* C15: getPage sends the by-id lookup exactly when its input is a number
\* that is a valid identifier, and the by-path lookup when its input is a
\* string; once the lookup has returned, it raises "Page not found" if and
\* only if the looked-up page is absent (null or undefined), and otherwise
\* returns the page with each {tag} object replaced by its tag string, in
\* the same order.
C15_GetPageDispatchAndFlatten ==
    \A p \in Callers :
        call[p].op = "getPage" =>
            LET x == call[p].id
                page == Get(response[p].body, "data")
            IN /\ \A i \in 1..Len(sent[p]) : i = 1 =>
                      /\ (sent[p][i].query.field = "pages.single") <=> IsIdentifier(x)
                      /\ IsIdentifier(x) => sent[p][i].query.args.id = NatStr(x.n)
                      /\ x.t = "string" =>
                             /\ sent[p][i].query.field = "pages.singleByPath"
                             /\ sent[p][i].query.args.path = EscapeEach(x.s)
               /\ PageNotFound(p) => LookupAnswered(p)
               /\ LookupAnswered(p) =>
                      /\ PageNotFound(p) <=> IsNullish(page)
                      /\ ~IsNullish(page) =>
                             /\ Returned(p)
                             /\ \A f \in (DOMAIN page) \ {"tags"} : result[p].val[f] = page[f]
                             /\ page.tags = Null => result[p].val.tags = Null
                             /\ page.tags # Null =>
                                    /\ Len(result[p].val.tags.a) = Len(page.tags.a)
                                    /\ \A i \in 1..Len(page.tags.a) :
                                           result[p].val.tags.a[i] = page.tags.a[i].tag

\* a page with two tags has been fetched by path and returned
C15_Witness ==
    /\ call["c1"].op = "getPage"
    /\ call["c1"].id = Str(<<"d">>)
    /\ Returned("c1")
    /\ result["c1"].val.tags = Arr(<<Str(<<"u">>), Str(<<"t">>)>>)

-----------------------------------------------------------------------------
(* C16 *)

\* The lines of a text: one more than it has newlines
LinesOf(s) == split(s, "\n")

\* The entry types the claim gives line i (from 1) of the two line lists
TypesAt(l1, l2, i) ==
    IF i > Len(l1) THEN <<"add">>
    ELSE IF i > Len(l2) THEN <<"remove">>
    ELSE IF l1[i] # l2[i] THEN <<"remove", "add">>
    ELSE <<"unchanged">>

DiffDone == lib.fn = "diffStrings" /\ lib.done

\* C16: diffStrings emits, for each line index in increasing order, one
\* `add` if only the second text has the line, one `remove` if only the
\* first has it, `remove` then `add` if both have it and differ, and one
\* `unchanged` if they are equal, each entry carrying the 1-based line
\* number; identical texts give only `unchanged` entries, one per line.
C16_DiffIsPositional ==
    DiffDone =>
        LET l1 == LinesOf(lib.arg[1])
            l2 == LinesOf(lib.arg[2])
            n == IF Len(l1) > Len(l2) THEN Len(l1) ELSE Len(l2)
            out == lib.out
            \* the entries that carry line number i, in output order
            At(i) == SelectSeq(out, LAMBDA d : d.lineNum = i)
        IN /\ \A k \in 1..Len(out) : out[k].lineNum \in 1..n
           /\ \A k \in 1..(Len(out) - 1) : out[k].lineNum <= out[k + 1].lineNum
           /\ \A i \in 1..n :
                  /\ Len(At(i)) = Len(TypesAt(l1, l2, i))
                  /\ \A k \in 1..Len(At(i)) : At(i)[k].type = TypesAt(l1, l2, i)[k]
           /\ lib.arg[1] = lib.arg[2] =>
                  /\ Len(out) = Len(l1)
                  /\ \A k \in 1..Len(out) : out[k].type = "unchanged"

\* a changed first line and an added second line
C16_Witness ==
    /\ DiffDone
    /\ lib.arg = <<(<<"a">>), (<<"b", "\n", "a">>)>>
    /\ [k \in 1..Len(lib.out) |-> <<lib.out[k].type, lib.out[k].lineNum>>]
           = << <<"remove", 1>>, <<"add", 1>>, <<"add", 2>> >>

-----------------------------------------------------------------------------
(* C17 *)

Range(f) == {f[i] : i \in DOMAIN f}

LintDone == lib.fn = "lintMarkdown" /\ lib.done

\* C17: lintMarkdown reports valid exactly when it produced no issue of
\* severity error; every issue is in exactly one of its errors and warnings
\* lists and these hold nothing else; a document in which every line is
\* empty after trimming carries a `no-empty` error and is not valid.
C17_ValidIffNoErrorAndPartition ==
    LintDone =>
        LET r == lib.out
            blank == \A i \in 1..Len(lib.arg) : lib.arg[i] \in WhiteSpace
        IN /\ r.valid <=> ~\E k \in 1..Len(r.all) : r.all[k].type = "error"
           /\ \A k \in 1..Len(r.all) :
                  (r.all[k] \in Range(r.errors)) # (r.all[k] \in Range(r.warnings))
           /\ Range(r.errors) \cup Range(r.warnings) = Range(r.all)
           /\ Len(r.errors) + Len(r.warnings) = Len(r.all)
           /\ \A e \in Range(r.errors) : e.type = "error"
           /\ \A e \in Range(r.warnings) : e.type = "warning"
           /\ blank => /\ ~r.valid
                        /\ \E e \in Range(r.errors) : e.rule = "no-empty"

\* a document of blank lines has been linted: warnings and the no-empty error
C17_Witness ==
    /\ LintDone
    /\ lib.arg = <<" ", "\n", "\n">>
    /\ ~lib.out.valid
    /\ [k \in 1..Len(lib.out.all) |-> lib.out.all[k].rule]
           = <<"no-trailing-spaces", "no-multiple-blanks", "no-empty">>

-----------------------------------------------------------------------------
(* C18 *)

SimilarityDone == lib.fn = "similarity" /\ lib.done

\* C18: the similarity of two texts is the Jaccard index of their word
\* sets, a ratio between 0 and 1: 1 when the word sets are equal and not
\* empty, 0 when they are disjoint, and 0 when both are empty.
C18_SimilarityIsJaccard ==
    SimilarityDone =>
        LET A == Range(getWords(lib.arg[1]))
            B == Range(getWords(lib.arg[2]))
            r == lib.out
        IN /\ r.t = "ratio"
           /\ 0 <= r.num /\ r.num <= r.den
           /\ A \cup B # {} => r.num * Cardinality(A \cup B) = Cardinality(A \cap B) * r.den
           /\ (A = B /\ A # {}) => r.num = r.den
           /\ A \cap B = {} => r.num = 0

-----------------------------------------------------------------------------
(* C19 *)

TreeDone == lib.fn = "renderTree" /\ lib.done

\* The directory segments of a path
Segments(path) == SelectSeq(split(path, "/"), LAMBDA q : q # <<>>)

\* The distinct directory segment paths of the items
DirectoryPaths(items) ==
    UNION {{SubSeq(Segments(items[k].path.s), 1, i) :
                i \in 1..Len(Segments(items[k].path.s))} : k \in 1..Len(items)}

\* The lines of a rendered tree
TreeLines(text) == IF text = <<>> THEN <<>> ELSE split(text, "\n")

\* How deep a line is indented, its connector, and whether it is a directory
DepthOf(line) ==
    CHOOSE d \in 0..Len(line) :
        /\ \A i \in 1..d : line[i] \in {"    ", "|   "}
        /\ d < Len(line) => line[d + 1] \notin {"    ", "|   "}
ConnectorOf(line) == line[DepthOf(line) + 1]
IsDirLine(line) == line[Len(line)] = "/"

\* The line under which line k hangs (0: the root)
ParentOf(L, k) ==
    IF \E j \in 1..(k - 1) : DepthOf(L[j]) < DepthOf(L[k])
    THEN CHOOSE j \in 1..(k - 1) :
             /\ DepthOf(L[j]) < DepthOf(L[k])
             /\ \A m \in (j + 1)..(k - 1) : DepthOf(L[m]) >= DepthOf(L[k])
    ELSE 0

\* C19: renderTree emits one line per item and one line per distinct
\* directory segment path; at every level the items of a node come before
\* its subdirectories, and of the entries of one level exactly the last
\* has the last-sibling connector, all others the non-last connector.
C19_TreeLinesAndConnectors ==
    TreeDone =>
        /\ lib.out.ok
        /\ LET L == TreeLines(lib.out.val)
               items == lib.arg
               Siblings(k) == {m \in 1..Len(L) : /\ ParentOf(L, m) = ParentOf(L, k)
                                                  /\ DepthOf(L[m]) = DepthOf(L[k])}
           IN /\ Cardinality({k \in 1..Len(L) : ~IsDirLine(L[k])}) = Len(items)
              /\ Cardinality({k \in 1..Len(L) : IsDirLine(L[k])})
                     = Cardinality(DirectoryPaths(items))
              /\ \A k \in 1..Len(L) : \A m \in Siblings(k) :
                     (k < m /\ IsDirLine(L[k])) => IsDirLine(L[m])
              /\ \A k \in 1..Len(L) :
                     /\ ConnectorOf(L[k]) \in {"+-- ", "|-- "}
                     /\ (ConnectorOf(L[k]) = "+-- ") <=> (\A m \in Siblings(k) : m <= k)

-----------------------------------------------------------------------------
(* C20 *)

\* C20: after any sequence of setVerbose and setDebug calls, whenever debug
\* mode is enabled verbose mode is enabled too.
C20_DebugImpliesVerbose == Truthy(debugMode) => Truthy(verboseMode)

-----------------------------------------------------------------------------
(* C21 *)

\* Call j was made after call i had returned
MadeAfter(i, j) == completions[j].before >= i

\* C21: with a rate limit of d > 0 milliseconds the completions of any two
\* rateLimit() calls are at least d milliseconds apart, whether the calls
\* follow each other or are started concurrently; with d <= 0 rateLimit
\* returns without delay.
C21_CompletionsApart ==
    \A i, j \in 1..Len(completions) :
        /\ (i < j /\ rateLimitMs > 0)
               => completions[j].at - completions[i].at >= rateLimitMs
        /\ rateLimitMs <= 0 => completions[i].at = completions[i].from

-----------------------------------------------------------------------------
(* C22 *)

\* The operations that make two round trips
TwoStep(c) ==
    \/ c.op = "updatePage"
    \/ c.op = "getPage" /\ Truthy(Default(Get(c.options, "withChildren"), Bool(FALSE)))

\* The outcome o is a response that carries data and no errors
Succeeded(o) ==
    /\ o.kind = "http2xx"
    /\ ~HasNonEmptyErrors(o)
    /\ ~IsNullish(Get(o.body, "data"))

\* C22: every operation sends at most two requests and never has two in
\* flight: its first request is sent by the call itself, and a second one
\* only by getPage with children and by updatePage, in the step in which
\* the first one settles with a page; nothing is sent after a request has
\* failed or the lookup has found nothing.  An operation that returns has
\* sent exactly two requests if it is one of those two, and exactly one
\* otherwise.
C22_AtMostTwoSequentialRequests ==
    [][\A p \in Callers :
          /\ Len(sent'[p]) <= 2
          /\ Len(sent'[p]) > Len(sent[p]) =>
                 /\ Len(sent'[p]) = Len(sent[p]) + 1
                 /\ Len(sent[p]) = 0 => pc[p] = "idle"
                 /\ Len(sent[p]) = 1 =>
                        /\ pc[p] = "await"
                        /\ TwoStep(call'[p])
                        /\ Succeeded(response'[p])
          /\ (pc'[p] = "done" /\ result'[p].kind = "return") =>
                 Len(sent'[p]) = (IF TwoStep(call'[p]) THEN 2 ELSE 1)]_vars

\* getPage with children has returned after its second request
C22_Witness ==
    /\ call["c1"].op = "getPage"
    /\ TwoStep(call["c1"])
    /\ Returned("c1")
    /\ Len(sent["c1"]) = 2

-----------------------------------------------------------------------------
(* C23 *)

\* The page path a request embeds, and the path its caller passed
EmbedsPath(r) ==
    r.via = "client" /\ r.query.field \in {"pages.singleByPath", "pages.create", "pages.move"}
EmbeddedPath(r) ==
    IF r.query.field = "pages.move" THEN r.query.args.destinationPath
    ELSE r.query.args.path
PassedPath(c) == IF c.op = "getPage" THEN c.id.s ELSE c.path.s

\* One leading slash removed
StripOne(s) == IF s # <<>> /\ s[1] = "/" THEN Tail(s) ELSE s

\* The request embeds the passed path with one leading slash stripped (and
\* escaped for the string literal), and none of the characters < > : " | ? *
EmbedsNormalized(c, r) ==
    /\ EmbeddedPath(r) = EscapeEach(StripOne(PassedPath(c)))
    /\ \A i \in 1..Len(StripOne(PassedPath(c))) :
           StripOne(PassedPath(c))[i] \notin InvalidPathChars

\* C23: every page path that getPage by path, createPage or movePage embeds
\* in operation text is a normalized page path: one leading '/' has been
\* stripped and it has none of the characters < > : " | ? *.
C23_EmbeddedPathsNormalized ==
    \A p \in Callers : \A i \in 1..Len(sent[p]) :
        EmbedsPath(sent[p][i]) => EmbedsNormalized(call[p], sent[p][i])

-----------------------------------------------------------------------------
(* C24 *)

\* path is parentPath, then '/', then a suffix
IsDescendantPath(path, parentPath) ==
    \E k \in 1..Len(path) :
        /\ SubSeq(path, 1, k - 1) = parentPath
        /\ path[k] = "/"

\* C24: with withChildren, getPage returns the fetched page with children
\* set to exactly the pages of the second fetch, in list order, whose path
\* is the parent's path followed by '/' and a suffix, the page itself
\* excluded; without withChildren it sends no second request and the page
\* it returns has no children field.
C24_ChildrenAreDescendantsInOrder ==
    \A p \in Callers :
        (call[p].op = "getPage" /\ Returned(p)) =>
            LET page == result[p].val
            IN IF TwoStep(call[p])
               THEN LET data == Get(response[p].body, "data")
                        list == IF Truthy(data) THEN data.a ELSE <<>>
                        K == {i \in 1..Len(list) :
                                 /\ IsDescendantPath(list[i].path.s, page.path.s)
                                 /\ list[i].id # page.id}
                        children == page.children.a
                    IN /\ Len(sent[p]) = 2
                       /\ sent[p][2].query = ChildQuery
                       /\ Len(children) = Cardinality(K)
                       /\ \A i \in K :
                              children[Cardinality({j \in K : j <= i})] = list[i]
                       /\ \A f \in DOMAIN work[p].page : page[f] = work[p].page[f]
               ELSE /\ Len(sent[p]) = 1
                    /\ "children" \notin DOMAIN page

\* of a list of two pages, a stranger and a child, the child alone is kept
C24_Witness ==
    /\ call["c1"].op = "getPage"
    /\ TwoStep(call["c1"])
    /\ Returned("c1")
    /\ response["c1"].body.data.t = "array"
    /\ Len(response["c1"].body.data.a) = 2
    /\ response["c1"].body.data.a[1].path = Str(<<"d", "x">>)
    /\ result["c1"].val.children = Arr(<<response["c1"].body.data.a[2]>>)

-----------------------------------------------------------------------------
(* C25 *)

\* The sum of the numbers an object holds
RECURSIVE SumOf(_)
SumOf(obj) ==
    IF DOMAIN obj = {} THEN 0
    ELSE LET k == CHOOSE x \in DOMAIN obj : TRUE
         IN obj[k].n + SumOf([x \in (DOMAIN obj) \ {k} |-> obj[x]])

\* The list getStats fetched
StatsFetched(p) ==
    LET data == Get(response[p].body, "data")
    IN IF Truthy(data) THEN data.a ELSE <<>>

\* The occurrences of tag g: pairs of a page and a position in its tags
Occurrences(l, g) ==
    UNION {{<<i, j>> : j \in {m \in 1..Len(OrElse(l[i].tags, Arr(<<>>)).a) :
                                  l[i].tags.a[m].s = g}} : i \in 1..Len(l)}

\* C25: for every fetched page list getStats returns totalPages =
\* publishedPages + draftPages = the sum of the per-locale counts, each
\* per-locale count the number of pages of that locale, each per-tag count
\* the number of occurrences of that tag over all pages; an absent list
\* gives zero counts and empty maps.
C25_StatsAreCounts ==
    \A p \in Callers :
        (call[p].op = "getStats" /\ Returned(p)) =>
            LET l == StatsFetched(p)
                stats == result[p].val
                tagsOf(i) == IF Truthy(l[i].tags)
                             THEN {l[i].tags.a[j].s : j \in 1..Len(l[i].tags.a)}
                             ELSE {}
            IN /\ stats.totalPages = Num(Len(l))
               /\ stats.publishedPages.n + stats.draftPages.n = Len(l)
               /\ DOMAIN stats.locales = {l[i].locale.s : i \in 1..Len(l)}
               /\ \A k \in DOMAIN stats.locales :
                      stats.locales[k] =
                          Num(Cardinality({i \in 1..Len(l) : l[i].locale.s = k}))
               /\ SumOf(stats.locales) = Len(l)
               /\ DOMAIN stats.topTags = UNION {tagsOf(i) : i \in 1..Len(l)}
               /\ \A g \in DOMAIN stats.topTags :
                      stats.topTags[g] = Num(Cardinality(Occurrences(l, g)))

-----------------------------------------------------------------------------
(* C26 *)

FormatDone == lib.fn = "formatDiff" /\ lib.done

\* A line with its colour codes taken off
Plain(line) == SelectSeq(line, LAMBDA x : x \notin {"gray", "green", "red", "reset"})

IsSeparator(line) == Plain(line) = <<"...">>

\* The line printed for a diff entry
PrintsEntry(line, d) ==
    /\ Plain(line)[1] = (CASE d.type = "add" -> "+ " [] d.type = "remove" -> "- "
                            [] OTHER -> "  ")
    /\ \E k \in 2..Len(Plain(line)) :
           /\ Plain(line)[k] = " | "
           /\ SelectSeq(SubSeq(Plain(line), 2, k - 1), LAMBDA x : x # " ")
                  = NatStr(d.lineNum)
           /\ SubSeq(Plain(line), k + 1, Len(Plain(line))) = d.content

\* The k-th smallest member of a set of numbers
Nth(S, k) == CHOOSE x \in S : Cardinality({y \in S : y <= x}) = k

\* C26: formatDiff prints every add and remove entry, prints an unchanged
\* entry if and only if a changed entry lies within contextLines index
\* positions of it, and puts a '...' line exactly before each printed entry
\* whose line number exceeds the previously printed one by more than one:
\* never as the first or last line, never twice in a row.
C26_PrintedEntriesAndSeparators ==
    FormatDone =>
        LET diff == lib.arg[1]
            ctx == IF lib.arg[2] = Undefined THEN DefaultContext ELSE lib.arg[2].n
            out == TreeLines(lib.out)
            P == {i \in 1..Len(diff) :
                     \/ diff[i].type # "unchanged"
                     \/ \E j \in 1..Len(diff) :
                            /\ diff[j].type # "unchanged"
                            /\ j - i <= ctx /\ i - j <= ctx}
            E == {k \in 1..Len(out) : ~IsSeparator(out[k])}
        IN /\ Cardinality(E) = Cardinality(P)
           /\ \A r \in 1..Cardinality(P) :
                  /\ PrintsEntry(out[Nth(E, r)], diff[Nth(P, r)])
                  /\ (Nth(E, r) > 1 /\ IsSeparator(out[Nth(E, r) - 1]))
                         <=> (r > 1 /\ diff[Nth(P, r)].lineNum
                                          > diff[Nth(P, r - 1)].lineNum + 1)
           /\ \A k \in 1..Len(out) :
                  IsSeparator(out[k]) =>
                      /\ k > 1 /\ k < Len(out)
                      /\ ~IsSeparator(out[k + 1])

\* with one line of context, the middle one of three unchanged lines
\* between two changed lines is left out and a separator stands for it
C26_Witness ==
    /\ FormatDone
    /\ lib.arg[2] = Num(1)
    /\ Len(lib.arg[1]) = 5
    /\ \A i \in 2..4 : lib.arg[1][i].type = "unchanged"
    /\ Len(TreeLines(lib.out)) = 5
    /\ IsSeparator(TreeLines(lib.out)[3])

-----------------------------------------------------------------------------
(* C27 *)

\* C27: when two updatePage calls on the same page that supply disjoint
\* fields (one the title, one the description) have both succeeded, the
\* page on the server carries the values of both, however the two calls
\* overlapped.
C27_BothUpdatesKept ==
    \A p, q \in Callers :
        (/\ Returned(p) /\ call[p].op = "updatePage"
         /\ call[p].options.title = Str(<<"N">>)
         /\ Returned(q) /\ call[q].op = "updatePage"
         /\ call[q].options.description = Str(<<"e">>))
        => /\ remote.title = Str(<<"N">>)
           /\ remote.description = Str(<<"e">>)

-----------------------------------------------------------------------------
(* C28 *)

\* The identifiers or the path that the returned object reports are, as
\* text, what the mutation sent to the server embeds
ReportsWhatWasSent(c, val, args) ==
    CASE c.op \in {"deletePage", "deleteAsset"} -> StringOf(val.id) = args.id
      [] c.op = "revertPage" -> /\ StringOf(val.pageId) = args.pageId
                                /\ StringOf(val.versionId) = args.versionId
      [] c.op = "movePage" -> EscapeEach(val.newPath.s) = args.destinationPath
      [] OTHER -> TRUE

\* C28: on success, the identifier or path that deletePage, deleteAsset,
\* revertPage and movePage report in their return value is the validated
\* value that was embedded in the mutation sent to the server.
C28_ReportedValueIsValidated ==
    \A p \in Callers :
        Returned(p) => ReportsWhatWasSent(call[p], result[p].val, sent[p][1].query.args)

-----------------------------------------------------------------------------
(* C29 *)

\* C29: listPages with an author filter returns the fetched pages whose
\* author name contains the given text, whatever the case of the letters:
\* when the server holds a page of such an author and answers the list
\* query with exactly the fields it asks for, the result is not empty.
C29_AuthorFilterFindsPages ==
    \A p \in Callers :
        (/\ ListReturned(p)
         /\ Truthy(call[p].options.author)
         /\ includes(toLowerCase(remote.authorName.s),
                     toLowerCase(call[p].options.author.s)))
        => Len(result[p].val.a) > 0

-----------------------------------------------------------------------------
(* C30 *)

\* getCached(key) has just returned r: a value and no error, the written
\* value only while at most the written ttl has elapsed since the latest
\* write of the key, and null once more has elapsed, and when no entry of
\* the key is there
ReadsWithinTtl(key, r) ==
    /\ r.ok
    /\ IF key \in DOMAIN cacheDir /\ cacheDir[key] # Garbage
       THEN LET entry == cacheDir[key]
                elapsed == now - entry.timestamp.n
            IN /\ elapsed > entry.ttl.n => r.val = Null
               /\ elapsed <= entry.ttl.n => r.val = entry.value
       ELSE r.val = Null

\* C30: for every ttl >= 0, an entry written by setCache(key, value, ttl)
\* is returned by getCached(key) only while at most ttl milliseconds have
\* elapsed since the latest write of that key; once more have elapsed, and
\* after clearCache, getCached(key) returns null; getCached never raises.
C30_CacheEntriesExpire ==
    [][\A key \in CacheKeys :
          (getCached(key) /\ lib' # lib) => ReadsWithinTtl(key, lib'.out)]_vars

====
